---- MODULE Spec2Model ----
(***************************************************************************)
(* PAL_AI_DATABASE: the hand-rolled tedious connection pool of             *)
(* src/server.js (createNewConnection, getConnection, executeQuery) and    *)
(* the verification-code workflows built on the three in-process maps      *)
(* verificationCodes, passwordResetCodes and otpStorage.                   *)
(*                                                                         *)
(* Node runs one callback at a time; a handler gives up control at every   *)
(* `await`.  Each action below is the code that runs between two awaits of *)
(* one call, so the interleavings of the model are those of the awaits.    *)
(***************************************************************************)
EXTENDS Integers, Sequences, FiniteSets, TLC

(***************************************************************************)
(* Bounds of the model.                                                    *)
(***************************************************************************)
\* server.js:14 sets MAX_POOL_SIZE = 10; the model runs the same code with a
\* smaller cap, the pool's behaviour being uniform in the cap.
MAX_POOL_SIZE == 2
\* concurrent executeQuery calls
NumCallers == 3
\* connections createNewConnection can hand out over a run
MaxConns == 3
\* HTTP requests being handled at the same time
NumReqs == 2
\* the clock runs from 0 to MaxTime, in units of five minutes
MaxTime == 4
\* rows the user tables can hold: the IDENTITY counter stops there
MaxUsers == 3
\* OTP objects verify-email-change can store over a run
MaxOtps == 2
\* rows one request can return
MaxRows == 2
\* Scans saved
MaxScans == 2
\* the values Math.random() is drawn from: the low and the high bits of the
\* significand that vary, and how far below 1/2 the exponent goes
LowBits == 3
TopBits == 3
MaxExp == 1

\* codeExpiry.setMinutes(getMinutes() + 15): 15 minutes are 3 units
CODE_TTL == 3
\* timeElapsed > 10 * 60 * 1000: 10 minutes are 2 units
OTP_TTL == 2

Callers == 1..NumCallers
ConnIds == 1..MaxConns
\* "no connection": the value of an unassigned `let connection`
NoConn == 0
NoCaller == 0

VARIABLES
    connectionPool,  \* server.js:13  the array of pooled connections, in order
    connState,       \* tedious connection.state.name, per connection object
    connRequest,     \* tedious connection.request: the call whose Request is in flight
    nextConn,        \* the next connection object createNewConnection will build
    pc,              \* where each executeQuery call is suspended
    connection,      \* `let connection` of executeQuery (the connection the call
                     \* was given), for as long as the call is running
    result,          \* how executeQuery's promise settled for the awaiting handler:
                     \* "none" (not yet), "resolved" (rows) or "rejected" (thrown)
    results,         \* server.js:117  `const results = []` of the request in flight
    resolvedRows,    \* the value the promise was resolved with
    requestError,    \* tedious request.error: an error token has come in
    closeCalled,     \* the connections the SIGINT handler called close() on
    exited,          \* process.exit() has been called
    now,               \* Date.now() / new Date()
    user_credentials,  \* table user_credentials: rows [user_id, username, password]
    user_profiles,     \* table user_profiles: rows [user_id, email]
    nextUserId,        \* the IDENTITY counter of user_credentials
    verificationCodes, \* server.js:171  Map email -> pending registration
    passwordResetCodes,\* server.js:172  Map email -> reset code
    otpStorage,        \* server.js:173  Map user id -> email-change OTP
    nextOtp,           \* identity of the next object put into otpStorage
    req,               \* the requests in flight: handler, await point, locals
    response,          \* the response written by the last step, if it wrote one
    verifiedOtp,       \* history: the reset code verify-otp last accepted, per email
    emailUpdates,      \* history: successful email UPDATEs, per stored OTP object
    before,            \* history: the maps and tables when the request in
                       \* flight came in
    rice_leaf_scan,    \* table rice_leaf_scan
    scan_history,      \* table scan_history: the scan ids it holds
    nextScanId,        \* the IDENTITY counter of rice_leaf_scan
    profile_data,      \* table user_profiles: the columns /api/profile/update sets
    random,            \* what Math.random() returned to generateVerificationCode
    generatedCode      \* what generateVerificationCode returned, digit by digit

poolVars == <<connectionPool, connState, connRequest, nextConn, pc, connection, result,
              results, resolvedRows, requestError>>

shutdownVars == <<closeCalled, exited>>

scanVars == <<rice_leaf_scan, scan_history, nextScanId>>

profileVars == <<profile_data>>

codeVars == <<random, generatedCode>>

dbVars == <<user_credentials, user_profiles, nextUserId>>

mapVars == <<verificationCodes, passwordResetCodes, otpStorage, nextOtp>>

authVars == <<now, user_credentials, user_profiles, nextUserId, verificationCodes,
              passwordResetCodes, otpStorage, nextOtp, req, response, verifiedOtp,
              emailUpdates, before>>

vars == <<connectionPool, connState, connRequest, nextConn, pc, connection, result,
          results, resolvedRows, requestError, closeCalled, exited, now, user_credentials, user_profiles, nextUserId, verificationCodes,
          passwordResetCodes, otpStorage, nextOtp, req, response, verifiedOtp,
          emailUpdates, before, rice_leaf_scan, scan_history, nextScanId,
          profile_data, random, generatedCode>>

----------------------------------------------------------------------------
(***************************************************************************)
(* Helpers on sequences.                                                   *)
(***************************************************************************)
RECURSIVE SelectSeqKeep(_, _)
\* Array.prototype.splice(i, 1) for every i whose entry is Final, run from the
\* end of the array: what is left is the other entries, in their old order.
SelectSeqKeep(s, states) ==
    IF s = <<>> THEN <<>>
    ELSE IF states[Head(s)] = "Final"
         THEN SelectSeqKeep(Tail(s), states)
         ELSE <<Head(s)>> \o SelectSeqKeep(Tail(s), states)

InPool(k) == \E i \in 1..Len(connectionPool) : connectionPool[i] = k

\* conn.isExecuting: read at server.js:75 and :92, assigned nowhere in the
\* program (and no property of a tedious Connection), so always undefined.
isExecuting(k) == FALSE

\* A find() predicate that takes every connection without a request in flight
\* for usable, instead of asking for LoggedIn.
AvailableMutNotBusy(k) == connState[k] # "SentClientRequest" /\ ~isExecuting(k)

\* The predicate of both find() calls (server.js:74-75, 91-92).
Available(k) == connState[k] = "LoggedIn" /\ ~isExecuting(k)

\* A find() that returns the last entry satisfying the predicate.
FindAvailableMutLast(pool) ==
    IF \E i \in 1..Len(pool) : Available(pool[i])
    THEN pool[CHOOSE i \in 1..Len(pool) :
                  /\ Available(pool[i])
                  /\ \A j \in (i+1)..Len(pool) : ~Available(pool[j])]
    ELSE NoConn

\* Array.prototype.find: the first entry satisfying the predicate, or undefined.
FindAvailable(pool) ==
    IF \E i \in 1..Len(pool) : Available(pool[i])
    THEN pool[CHOOSE i \in 1..Len(pool) :
                  /\ Available(pool[i])
                  /\ \A j \in 1..(i-1) : ~Available(pool[j])]
    ELSE NoConn

\* A pruning loop that stops after the first Final entry it removed.
PruneFinalMutOne(pool) ==
    IF \E i \in 1..Len(pool) : connState[pool[i]] = "Final"
    THEN LET last == CHOOSE i \in 1..Len(pool) :
                        /\ connState[pool[i]] = "Final"
                        /\ \A j \in (i+1)..Len(pool) : connState[pool[j]] # "Final"
         IN  SubSeq(pool, 1, last - 1) \o SubSeq(pool, last + 1, Len(pool))
    ELSE pool

\* server.js:66-71
PruneFinal(pool) == SelectSeqKeep(pool, connState)

\* The size check off by one: a full pool still counts as having room.
PoolHasRoomMutOffByOne(pool) == Len(pool) <= MAX_POOL_SIZE

\* server.js:82
PoolHasRoom(pool) == Len(pool) < MAX_POOL_SIZE

\* The catch block of executeQuery (server.js:133-142): evicts `connection`
\* when it is set and Final.  `conn` is the value of the local at the throw.
CatchEvict(pool, conn) ==
    IF conn # NoConn /\ connState[conn] = "Final"
    THEN SelectSeq(pool, LAMBDA x : x # conn)
    ELSE pool

\* The value of a promise that was not resolved.
NoValue == <<-1>>

\* resolve(v) / reject(e) of a promise: the first call settles it, a later
\* call changes nothing.
Settle(state, outcome) == IF state = "none" THEN outcome ELSE state

\* A Request that emits requestCompleted before it calls its callback.
SettleRequestMutCompletedFirst(state, err) ==
    IF err THEN Settle(Settle(state, "resolved"), "rejected")
    ELSE Settle(state, "resolved")

\* The end of a request as tedious runs it: Request.callback calls the
\* user's callback (server.js:108-112: reject if err) and then emits
\* requestCompleted (server.js:123-125: resolve).
SettleRequest(state, err) ==
    IF err THEN Settle(Settle(state, "rejected"), "resolved")
    ELSE Settle(state, "resolved")

----------------------------------------------------------------------------
InitPool ==
    /\ connectionPool = <<>>
    /\ connState = [k \in ConnIds |-> "Unborn"]
    /\ connRequest = [k \in ConnIds |-> NoCaller]
    /\ nextConn = 1
    /\ pc = [c \in Callers |-> "idle"]
    /\ connection = [c \in Callers |-> NoConn]
    /\ result = [c \in Callers |-> "none"]
    /\ results = [c \in Callers |-> <<>>]
    /\ resolvedRows = [c \in Callers |-> NoValue]
    /\ requestError = [k \in ConnIds |-> FALSE]
    /\ closeCalled = {}
    /\ exited = FALSE

(***************************************************************************)
(* executeQuery is called: getConnection runs up to its first await.       *)
(* server.js:102-105, 65-98                                                *)
(***************************************************************************)
ExecuteQueryStart(c) ==
    /\ pc[c] = "idle"
    /\ LET pruned == PruneFinal(connectionPool)
           found == FindAvailable(pruned)
       IN  /\ connectionPool' = pruned
           /\ result' = [result EXCEPT ![c] = "none"]
           /\ IF found # NoConn
              THEN /\ pc' = [pc EXCEPT ![c] = "granted"]
                   /\ connection' = [connection EXCEPT ![c] = found]
              ELSE IF PoolHasRoom(pruned)
              THEN /\ pc' = [pc EXCEPT ![c] = "creating"]
                   /\ connection' = [connection EXCEPT ![c] = NoConn]
              ELSE /\ pc' = [pc EXCEPT ![c] = "polling"]
                   /\ connection' = [connection EXCEPT ![c] = NoConn]
    /\ resolvedRows' = [resolvedRows EXCEPT ![c] = NoValue]
    /\ UNCHANGED <<connState, connRequest, nextConn, results, requestError>>

\* A getConnection that pushes the connection before its handshake is done.
ConnectOkMutNoHandshake(c) ==
    /\ pc[c] = "creating"
    /\ nextConn <= MaxConns
    /\ connectionPool' = Append(connectionPool, nextConn)
    /\ connection' = [connection EXCEPT ![c] = nextConn]
    /\ pc' = [pc EXCEPT ![c] = "granted"]
    /\ nextConn' = nextConn + 1
    /\ UNCHANGED <<connState, connRequest, result, results, resolvedRows,
                   requestError>>

(***************************************************************************)
(* connection.connect's callback without error: createNewConnection        *)
(* resolves, getConnection pushes the connection and returns it.           *)
(* server.js:50-58, 83-85                                                  *)
(***************************************************************************)
ConnectOk(c) ==
    /\ pc[c] = "creating"
    /\ nextConn <= MaxConns
    /\ connState' = [connState EXCEPT ![nextConn] = "LoggedIn"]
    /\ connectionPool' = Append(connectionPool, nextConn)
    /\ connection' = [connection EXCEPT ![c] = nextConn]
    /\ pc' = [pc EXCEPT ![c] = "granted"]
    /\ nextConn' = nextConn + 1
    /\ UNCHANGED <<connRequest, result, results, resolvedRows, requestError>>

\* A getConnection that pushes the connection whose connect failed.
ConnectFailMutAppend(c) ==
    /\ pc[c] = "creating"
    /\ nextConn <= MaxConns
    /\ connectionPool' = Append(connectionPool, nextConn)
    /\ connState' = [connState EXCEPT ![nextConn] = "Final"]
    /\ nextConn' = nextConn + 1
    /\ pc' = [pc EXCEPT ![c] = "idle"]
    /\ result' = [result EXCEPT ![c] = "rejected"]
    /\ UNCHANGED <<connRequest, connection, results, resolvedRows, requestError>>

(***************************************************************************)
(* connect's callback with an error (or the connector throwing): the       *)
(* rejection leaves getConnection at its await and reaches executeQuery's  *)
(* catch with `connection` still undefined.  server.js:52-55, 59-61, 133   *)
(***************************************************************************)
ConnectFail(c) ==
    /\ pc[c] = "creating"
    /\ connectionPool' = CatchEvict(connectionPool, NoConn)
    /\ pc' = [pc EXCEPT ![c] = "idle"]
    /\ result' = [result EXCEPT ![c] = "rejected"]
    /\ UNCHANGED <<connState, connRequest, nextConn, connection, results,
                   resolvedRows, requestError>>

\* A poll tick that prunes the Final entries before it searches.
PollTickMutPrune(c) ==
    /\ pc[c] = "polling"
    /\ LET found == FindAvailable(PruneFinal(connectionPool))
       IN  IF found # NoConn
           THEN /\ pc' = [pc EXCEPT ![c] = "granted"]
                /\ connection' = [connection EXCEPT ![c] = found]
           ELSE UNCHANGED <<pc, connection>>
    /\ connectionPool' = PruneFinal(connectionPool)
    /\ UNCHANGED <<connState, connRequest, nextConn, result,
                   results, resolvedRows, requestError>>

(***************************************************************************)
(* One tick of the 100 ms interval of a waiting call.  server.js:89-98     *)
(***************************************************************************)
PollTick(c) ==
    /\ pc[c] = "polling"
    /\ LET found == FindAvailable(connectionPool)
       IN  IF found # NoConn
           THEN /\ pc' = [pc EXCEPT ![c] = "granted"]
                /\ connection' = [connection EXCEPT ![c] = found]
           ELSE UNCHANGED <<pc, connection>>
    /\ UNCHANGED <<connectionPool, connState, connRequest, nextConn, result,
                   results, resolvedRows, requestError>>

(***************************************************************************)
(* executeQuery resumes after `await getConnection()` and calls execSql.   *)
(* tedious makes the request only in state LoggedIn (the connection then   *)
(* moves to SentClientRequest at once); in any other state it calls the    *)
(* request's callback with an error, which rejects the returned promise.   *)
(* The promise is returned, not awaited, so the catch block does not run.  *)
(* server.js:105-132                                                       *)
(***************************************************************************)
ExecSql(c) ==
    /\ pc[c] = "granted"
    /\ LET k == connection[c]
       IN  IF connState[k] = "LoggedIn"
           THEN /\ connState' = [connState EXCEPT ![k] = "SentClientRequest"]
                /\ connRequest' = [connRequest EXCEPT ![k] = c]
                /\ pc' = [pc EXCEPT ![c] = "executing"]
                /\ UNCHANGED <<result, connection>>
           ELSE /\ pc' = [pc EXCEPT ![c] = "idle"]
                /\ result' = [result EXCEPT ![c] = SettleRequest(@, TRUE)]
                /\ connection' = [connection EXCEPT ![c] = NoConn]
                /\ UNCHANGED <<connState, connRequest>>
    /\ results' = [results EXCEPT ![c] = <<>>]
    /\ UNCHANGED <<connectionPool, nextConn, resolvedRows, requestError>>

(***************************************************************************)
(* The server answers the request in flight on k: tedious returns to       *)
(* LoggedIn and calls the request's callback (err or not), then emits      *)
(* requestCompleted.  server.js:108-125                                    *)
(***************************************************************************)
RequestDone(k, err) ==
    /\ connState[k] = "SentClientRequest"
    /\ connRequest[k] # NoCaller
    /\ LET c == connRequest[k]
       IN  /\ pc' = [pc EXCEPT ![c] = "idle"]
           /\ result' = [result EXCEPT ![c] = SettleRequest(@, err)]
           /\ resolvedRows' = [resolvedRows EXCEPT ![c] =
                                  IF SettleRequest(result[c], err) = "resolved"
                                  THEN results[c] ELSE NoValue]
           /\ results' = [results EXCEPT ![c] = <<>>]
    /\ connection' = [connection EXCEPT ![connRequest[k]] = NoConn]
    /\ connState' = [connState EXCEPT ![k] = "LoggedIn"]
    /\ connRequest' = [connRequest EXCEPT ![k] = NoCaller]
    /\ requestError' = [requestError EXCEPT ![k] = FALSE]
    /\ UNCHANGED <<connectionPool, nextConn>>

(***************************************************************************)
(* The socket of k ends or errors: tedious moves k to Final for good and,  *)
(* if a request is in flight, calls its callback with an error.  Nothing   *)
(* in executeQuery runs on that rejection but reject itself.               *)
(* server.js:108-112, 127-129                                              *)
(***************************************************************************)
ConnectionLost(k) ==
    /\ connState[k] \in {"LoggedIn", "SentClientRequest"}
    /\ connState' = [connState EXCEPT ![k] = "Final"]
    /\ connRequest' = [connRequest EXCEPT ![k] = NoCaller]
    /\ IF connRequest[k] # NoCaller
       THEN /\ pc' = [pc EXCEPT ![connRequest[k]] = "idle"]
            /\ result' = [result EXCEPT ![connRequest[k]] = SettleRequest(@, TRUE)]
            /\ connection' = [connection EXCEPT ![connRequest[k]] = NoConn]
            /\ results' = [results EXCEPT ![connRequest[k]] = <<>>]
       ELSE UNCHANGED <<pc, result, connection, results>>
    /\ requestError' = [requestError EXCEPT ![k] = FALSE]
    /\ UNCHANGED <<connectionPool, nextConn, resolvedRows>>

(***************************************************************************)
(* A row of the answer comes in: the 'row' listener pushes it.  The i-th   *)
(* row of an answer is written i.  server.js:117-121                       *)
(***************************************************************************)
RowEvent(k) ==
    /\ connState[k] = "SentClientRequest"
    /\ connRequest[k] # NoCaller
    /\ Len(results[connRequest[k]]) < MaxRows
    /\ results' = [results EXCEPT ![connRequest[k]] = Append(@, Len(@) + 1)]
    /\ UNCHANGED <<connectionPool, connState, connRequest, nextConn, pc,
                   connection, result, resolvedRows, requestError>>

(***************************************************************************)
(* An error token of the answer comes in: tedious keeps it in              *)
(* request.error and hands it to the callback when the answer has ended.   *)
(***************************************************************************)
ErrorToken(k) ==
    /\ connState[k] = "SentClientRequest"
    /\ connRequest[k] # NoCaller
    /\ ~requestError[k]
    /\ requestError' = [requestError EXCEPT ![k] = TRUE]
    /\ UNCHANGED <<connectionPool, connState, connRequest, nextConn, pc,
                   connection, result, results, resolvedRows>>

NextPool ==
    /\ \/ \E c \in Callers : ExecuteQueryStart(c)
       \/ \E c \in Callers : ConnectOk(c)
       \/ \E c \in Callers : ConnectFail(c)
       \/ \E c \in Callers : PollTick(c)
       \/ \E c \in Callers : ExecSql(c)
       \/ \E k \in ConnIds, err \in BOOLEAN : RequestDone(k, err)
       \/ \E k \in ConnIds : ConnectionLost(k)
    /\ UNCHANGED <<authVars, shutdownVars, scanVars, profileVars, codeVars>>

----------------------------------------------------------------------------
(***************************************************************************)
(* The verification workflows.  A handler is a sequence of steps, one per  *)
(* await; a query or a mail is answered (ok) or throws (~ok), and a throw  *)
(* ends the handler in its catch with status 500.  The tables are read and *)
(* written in the step in which the query is answered.                     *)
(***************************************************************************)
Emails == {"a", "b"}
Usernames == {"u1", "u2"}
Passwords == {"p", "q"}
\* values of generateVerificationCode (server.js:176-178)
Codes == {"100000", "999999"}
UserIds == 1..MaxUsers
Reqs == 1..NumReqs
OtpIds == 1..MaxOtps

\* Map.get of a key that is not in the map
NoRec == [absent |-> TRUE]
\* a request slot with no request in it
IdleReq == [h |-> "idle"]
NoResponse == [req |-> 0, handler |-> "none", status |-> 0]

\* bcrypt.hash and bcrypt.compare: a one-way image of the password.
Hash(password) == <<"bcrypt", password>>
Compare(password, hash) == hash = Hash(password)

\* SELECT ... FROM user_profiles WHERE email = @param0
ProfilesByEmail(email) == {p \in user_profiles : p.email = email}

\* SELECT uc.password ... FROM user_credentials uc JOIN user_profiles up
\* ON uc.user_id = up.user_id WHERE uc.user_id = @param0
CredentialsJoinProfiles(uid) ==
    {c \in user_credentials :
        c.user_id = uid /\ \E p \in user_profiles : p.user_id = uid}

\* res.status(s).json(...) of request r: the handler ends with it.
Respond(r, handler, status, key, code) ==
    /\ response' = [req |-> r, handler |-> handler, status |-> status,
                    key |-> key, code |-> code]
    /\ req' = [req EXCEPT ![r] = IdleReq]

\* res.status(status).json(body) where the body matters.
RespondWith(r, handler, status, key, code, body) ==
    /\ response' = [req |-> r, handler |-> handler, status |-> status,
                    key |-> key, code |-> code, body |-> body]
    /\ req' = [req EXCEPT ![r] = IdleReq]

\* A step that suspends request r at its next await.
Suspend(r, locals) ==
    /\ response' = NoResponse
    /\ req' = [req EXCEPT ![r] = locals]

At(r, handler, step) == req[r].h = handler /\ req[r].step = step

\* The maps and the tables as a request finds them.
Snapshot ==
    [verificationCodes |-> verificationCodes,
     passwordResetCodes |-> passwordResetCodes,
     otpStorage |-> otpStorage,
     user_credentials |-> user_credentials,
     user_profiles |-> user_profiles]

InitAuth ==
    /\ now = 0
    /\ user_credentials = {[user_id |-> 1, username |-> "u1", password |-> Hash("p")]}
    /\ user_profiles = {[user_id |-> 1, email |-> "a"]}
    /\ nextUserId = 2
    /\ verificationCodes = [e \in Emails |-> NoRec]
    /\ passwordResetCodes = [e \in Emails |-> NoRec]
    /\ otpStorage = [u \in UserIds |-> NoRec]
    /\ nextOtp = 1
    /\ req = [r \in Reqs |-> IdleReq]
    /\ response = NoResponse
    /\ verifiedOtp = [e \in Emails |-> "none"]
    /\ emailUpdates = [i \in OtpIds |-> 0]
    /\ before = Snapshot

InitScan ==
    /\ rice_leaf_scan = {}
    /\ scan_history = {}
    /\ nextScanId = 1

\* a date column value: new Date(str)
Date(str) == [date |-> str]

\* The row of user 1 as it is before any update: written before time 0.
InitProfile ==
    profile_data =
        [u \in UserIds |->
            IF u = 1
            THEN [firstname |-> "f0", lastname |-> "l0", birthdate |-> Date("d0"),
                  mobile_number |-> "m0", profile_image |-> "i0",
                  updated_at |-> 0 - 1]
            ELSE NoRec]

\* no call of generateVerificationCode yet
NoCode == <<>>

InitCode ==
    /\ random = [mant |-> <<>>, frac |-> 0]
    /\ generatedCode = NoCode

Init == InitPool /\ InitAuth /\ InitScan /\ InitProfile /\ InitCode

\* Time passes.
Tick ==
    /\ now < MaxTime
    /\ now' = now + 1
    /\ response' = NoResponse
    /\ UNCHANGED <<dbVars, mapVars, req, verifiedOtp, emailUpdates>>

(***************************************************************************)
(* POST /pre-signup                                  server.js:517-582     *)
(***************************************************************************)
PreSignupStart(r, username, email, password) ==
    /\ req[r] = IdleReq
    /\ Suspend(r, [h |-> "pre-signup", step |-> "emailQuery", email |-> email,
                   username |-> username, password |-> password])
    /\ UNCHANGED <<now, dbVars, mapVars, verifiedOtp, emailUpdates>>

\* verificationCodes.set as a merge: a record already stored keeps its
\* pending profile fields.
PreSignupEmailQueryMutMerge(r, ok, code) ==
    /\ At(r, "pre-signup", "emailQuery")
    /\ LET email == req[r].email
       IN  IF ~ok
           THEN /\ Respond(r, "pre-signup", 500, email, "")
                /\ UNCHANGED verificationCodes
           ELSE IF ProfilesByEmail(email) # {}
           THEN /\ Respond(r, "pre-signup", 409, email, "")
                /\ UNCHANGED verificationCodes
           ELSE /\ verificationCodes' =
                       [verificationCodes EXCEPT ![email] =
                           IF @ = NoRec
                           THEN [username |-> req[r].username,
                                 password |-> req[r].password,
                                 verificationCode |-> code,
                                 codeExpiry |-> now + CODE_TTL]
                           ELSE [@ EXCEPT !.verificationCode = code,
                                          !.codeExpiry = now + CODE_TTL]]
                /\ Suspend(r, [h |-> "pre-signup", step |-> "sendMail",
                               email |-> email])
    /\ UNCHANGED <<now, dbVars, passwordResetCodes, otpStorage, nextOtp,
                   verifiedOtp, emailUpdates>>

PreSignupEmailQuery(r, ok, code) ==
    /\ At(r, "pre-signup", "emailQuery")
    /\ LET email == req[r].email
       IN  IF ~ok
           THEN /\ Respond(r, "pre-signup", 500, email, "")
                /\ UNCHANGED verificationCodes
           ELSE IF ProfilesByEmail(email) # {}
           THEN /\ Respond(r, "pre-signup", 409, email, "")
                /\ UNCHANGED verificationCodes
           ELSE /\ verificationCodes' =
                       [verificationCodes EXCEPT ![email] =
                           [username |-> req[r].username,
                            password |-> req[r].password,
                            verificationCode |-> code,
                            codeExpiry |-> now + CODE_TTL]]
                /\ Suspend(r, [h |-> "pre-signup", step |-> "sendMail",
                               email |-> email])
    /\ UNCHANGED <<now, dbVars, passwordResetCodes, otpStorage, nextOtp,
                   verifiedOtp, emailUpdates>>

PreSignupMail(r, ok) ==
    /\ At(r, "pre-signup", "sendMail")
    /\ Respond(r, "pre-signup", IF ok THEN 200 ELSE 500, req[r].email, "")
    /\ UNCHANGED <<now, dbVars, mapVars, verifiedOtp, emailUpdates>>

(***************************************************************************)
(* POST /complete-signup                             server.js:585-658     *)
(***************************************************************************)
\* The guard without its third disjunct: the expiry is not looked at.
CompleteSignupValidMutNoExpiry(codes, time, email, code) ==
    /\ codes[email] # NoRec
    /\ ~(codes[email].verificationCode # code)

\* The guard at server.js:593-596, negated: the record exists, the code is
\* the stored one and the clock is not past codeExpiry.
CompleteSignupValid(codes, time, email, code) ==
    /\ codes[email] # NoRec
    /\ ~(codes[email].verificationCode # code)
    /\ ~(time > codes[email].codeExpiry)

CompleteSignupStart(r, email, code) ==
    /\ req[r] = IdleReq
    /\ IF CompleteSignupValid(verificationCodes, now, email, code)
       THEN Suspend(r, [h |-> "complete-signup", step |-> "hash",
                        email |-> email, code |-> code,
                        username |-> verificationCodes[email].username,
                        password |-> verificationCodes[email].password])
       ELSE Respond(r, "complete-signup", 400, email, code)
    /\ UNCHANGED <<now, dbVars, mapVars, verifiedOtp, emailUpdates>>

\* bcrypt.genSalt / bcrypt.hash answered.
CompleteSignupHash(r, ok) ==
    /\ At(r, "complete-signup", "hash")
    /\ IF ok
       THEN Suspend(r, [req[r] EXCEPT !.step = "insert"])
       ELSE Respond(r, "complete-signup", 500, req[r].email, req[r].code)
    /\ UNCHANGED <<now, dbVars, mapVars, verifiedOtp, emailUpdates>>

\* verificationCodes.delete moved in front of the await on the query.
CompleteSignupInsertMutDeleteFirst(r, ok) ==
    /\ At(r, "complete-signup", "insert")
    /\ ok => nextUserId <= MaxUsers
    /\ IF ok
       THEN /\ user_credentials' = user_credentials \cup
                   {[user_id |-> nextUserId, username |-> req[r].username,
                     password |-> Hash(req[r].password)]}
            /\ user_profiles' = user_profiles \cup
                   {[user_id |-> nextUserId, email |-> req[r].email]}
            /\ nextUserId' = nextUserId + 1
            /\ verificationCodes' = [verificationCodes EXCEPT ![req[r].email] = NoRec]
            /\ RespondWith(r, "complete-signup", 201, req[r].email, req[r].code,
                           [message |-> "Registration completed successfully",
                            userId |-> nextUserId])
       ELSE /\ Respond(r, "complete-signup", 500, req[r].email, req[r].code)
            /\ verificationCodes' = [verificationCodes EXCEPT ![req[r].email] = NoRec]
            /\ UNCHANGED dbVars
    /\ UNCHANGED <<now, passwordResetCodes, otpStorage, nextOtp, verifiedOtp,
                   emailUpdates>>

\* The batch against a table with a unique index on the email: the query
\* fails when a profile row already has it.
CompleteSignupInsertMutUnique(r, ok) ==
    /\ At(r, "complete-signup", "insert")
    /\ ok => nextUserId <= MaxUsers
    /\ IF ok /\ ProfilesByEmail(req[r].email) = {}
       THEN /\ user_credentials' = user_credentials \cup
                   {[user_id |-> nextUserId, username |-> req[r].username,
                     password |-> Hash(req[r].password)]}
            /\ user_profiles' = user_profiles \cup
                   {[user_id |-> nextUserId, email |-> req[r].email]}
            /\ nextUserId' = nextUserId + 1
            /\ verificationCodes' = [verificationCodes EXCEPT ![req[r].email] = NoRec]
            /\ RespondWith(r, "complete-signup", 201, req[r].email, req[r].code,
                           [message |-> "Registration completed successfully",
                            userId |-> nextUserId])
       ELSE /\ Respond(r, "complete-signup", 500, req[r].email, req[r].code)
            /\ UNCHANGED <<dbVars, verificationCodes>>
    /\ UNCHANGED <<now, passwordResetCodes, otpStorage, nextOtp, verifiedOtp,
                   emailUpdates>>

\* registrationQuery answered: BEGIN TRANSACTION; both INSERTs; COMMIT.
CompleteSignupInsert(r, ok) ==
    /\ At(r, "complete-signup", "insert")
    /\ ok => nextUserId <= MaxUsers
    /\ IF ok
       THEN /\ user_credentials' = user_credentials \cup
                   {[user_id |-> nextUserId, username |-> req[r].username,
                     password |-> Hash(req[r].password)]}
            /\ user_profiles' = user_profiles \cup
                   {[user_id |-> nextUserId, email |-> req[r].email]}
            /\ nextUserId' = nextUserId + 1
            /\ verificationCodes' = [verificationCodes EXCEPT ![req[r].email] = NoRec]
            /\ RespondWith(r, "complete-signup", 201, req[r].email, req[r].code,
                           [message |-> "Registration completed successfully",
                            userId |-> nextUserId])
       ELSE /\ Respond(r, "complete-signup", 500, req[r].email, req[r].code)
            /\ UNCHANGED <<dbVars, verificationCodes>>
    /\ UNCHANGED <<now, passwordResetCodes, otpStorage, nextOtp, verifiedOtp,
                   emailUpdates>>

(***************************************************************************)
(* POST /resend-verification-code                    server.js:661-712     *)
(***************************************************************************)
\* Only the code is replaced: the expiry of the first issue stays.
ResendVerificationStartMutKeepsExpiry(r, email, code) ==
    /\ req[r] = IdleReq
    /\ IF verificationCodes[email] = NoRec
       THEN /\ Respond(r, "resend-verification-code", 400, email, "")
            /\ UNCHANGED verificationCodes
       ELSE /\ verificationCodes' =
                   [verificationCodes EXCEPT ![email] =
                       [@ EXCEPT !.verificationCode = code]]
            /\ Suspend(r, [h |-> "resend-verification-code", step |-> "sendMail",
                           email |-> email])
    /\ UNCHANGED <<now, dbVars, passwordResetCodes, otpStorage, nextOtp,
                   verifiedOtp, emailUpdates>>

ResendVerificationStart(r, email, code) ==
    /\ req[r] = IdleReq
    /\ IF verificationCodes[email] = NoRec
       THEN /\ Respond(r, "resend-verification-code", 400, email, "")
            /\ UNCHANGED verificationCodes
       ELSE /\ verificationCodes' =
                   [verificationCodes EXCEPT ![email] =
                       [@ EXCEPT !.verificationCode = code,
                                 !.codeExpiry = now + CODE_TTL]]
            /\ Suspend(r, [h |-> "resend-verification-code", step |-> "sendMail",
                           email |-> email])
    /\ UNCHANGED <<now, dbVars, passwordResetCodes, otpStorage, nextOtp,
                   verifiedOtp, emailUpdates>>

ResendVerificationMail(r, ok) ==
    /\ At(r, "resend-verification-code", "sendMail")
    /\ Respond(r, "resend-verification-code", IF ok THEN 200 ELSE 500,
               req[r].email, "")
    /\ UNCHANGED <<now, dbVars, mapVars, verifiedOtp, emailUpdates>>

(***************************************************************************)
(* POST /signup of the earlier server                part_000:100-162      *)
(* Two executeQuery calls, no transaction around them.                     *)
(***************************************************************************)
SignupStart(r, username, email, password) ==
    /\ req[r] = IdleReq
    /\ Suspend(r, [h |-> "signup", step |-> "insertCredentials", email |-> email,
                   username |-> username, password |-> password])
    /\ UNCHANGED <<now, dbVars, mapVars, verifiedOtp, emailUpdates>>

SignupInsertCredentials(r, ok) ==
    /\ At(r, "signup", "insertCredentials")
    /\ ok => nextUserId <= MaxUsers
    /\ IF ok
       THEN /\ user_credentials' = user_credentials \cup
                   {[user_id |-> nextUserId, username |-> req[r].username,
                     password |-> Hash(req[r].password)]}
            /\ nextUserId' = nextUserId + 1
            /\ Suspend(r, [h |-> "signup", step |-> "insertProfile",
                           email |-> req[r].email, userId |-> nextUserId])
       ELSE /\ Respond(r, "signup", 500, req[r].email, "")
            /\ UNCHANGED <<user_credentials, nextUserId>>
    /\ UNCHANGED <<now, user_profiles, mapVars, verifiedOtp, emailUpdates>>

SignupInsertProfile(r, ok) ==
    /\ At(r, "signup", "insertProfile")
    /\ IF ok
       THEN /\ user_profiles' = user_profiles \cup
                   {[user_id |-> req[r].userId, email |-> req[r].email]}
            /\ Respond(r, "signup", 201, req[r].email, "")
       ELSE /\ Respond(r, "signup", 500, req[r].email, "")
            /\ UNCHANGED user_profiles
    /\ UNCHANGED <<now, user_credentials, nextUserId, mapVars, verifiedOtp,
                   emailUpdates>>

(***************************************************************************)
(* POST /forgot-password and POST /resend-password-otp                     *)
(*                                    server.js:716-775 and 825-884        *)
(***************************************************************************)
ForgotPasswordStart(r, handler, email) ==
    /\ req[r] = IdleReq
    /\ handler \in {"forgot-password", "resend-password-otp"}
    /\ Suspend(r, [h |-> handler, step |-> "emailQuery", email |-> email])
    /\ UNCHANGED <<now, dbVars, mapVars, verifiedOtp, emailUpdates>>

ForgotPasswordEmailQuery(r, ok, code) ==
    /\ req[r].h \in {"forgot-password", "resend-password-otp"}
    /\ req[r].step = "emailQuery"
    /\ LET email == req[r].email
           rows == ProfilesByEmail(email)
       IN  IF ~ok
           THEN /\ Respond(r, req[r].h, 500, email, "")
                /\ UNCHANGED <<passwordResetCodes, verifiedOtp>>
           ELSE IF rows = {}
           THEN /\ Respond(r, req[r].h, 404, email, "")
                /\ UNCHANGED <<passwordResetCodes, verifiedOtp>>
           ELSE \E row \in rows :
                /\ passwordResetCodes' =
                       [passwordResetCodes EXCEPT ![email] =
                           [resetCode |-> code,
                            codeExpiry |-> now + CODE_TTL,
                            userId |-> row.user_id]]
                /\ verifiedOtp' = [verifiedOtp EXCEPT ![email] = "none"]
                /\ Suspend(r, [h |-> req[r].h, step |-> "sendMail",
                               email |-> email])
    /\ UNCHANGED <<now, dbVars, verificationCodes, otpStorage, nextOtp,
                   emailUpdates>>

ForgotPasswordMail(r, ok) ==
    /\ req[r].h \in {"forgot-password", "resend-password-otp"}
    /\ req[r].step = "sendMail"
    /\ Respond(r, req[r].h, IF ok THEN 200 ELSE 500, req[r].email, "")
    /\ UNCHANGED <<now, dbVars, mapVars, verifiedOtp, emailUpdates>>

(***************************************************************************)
(* POST /verify-otp                                  server.js:777-822     *)
(***************************************************************************)
\* The three checks of the handler, in its order, all passed.
VerifyOtpValid(codes, time, email, otp) ==
    /\ codes[email] # NoRec
    /\ ~(codes[email].resetCode # otp)
    /\ ~(time > codes[email].codeExpiry)

\* A verification that uses the code up: the record is deleted on success.
VerifyOtpMutConsumes(r, email, otp) ==
    /\ req[r] = IdleReq
    /\ LET storedData == passwordResetCodes[email]
       IN  IF storedData = NoRec
           THEN /\ RespondWith(r, "verify-otp", 400, email, otp,
                       [message |-> "No password reset request found. Please request a new OTP."])
                /\ UNCHANGED <<passwordResetCodes, verifiedOtp>>
           ELSE IF storedData.resetCode # otp
           THEN /\ RespondWith(r, "verify-otp", 400, email, otp,
                       [message |-> "Invalid OTP"])
                /\ UNCHANGED <<passwordResetCodes, verifiedOtp>>
           ELSE IF now > storedData.codeExpiry
           THEN /\ passwordResetCodes' = [passwordResetCodes EXCEPT ![email] = NoRec]
                /\ RespondWith(r, "verify-otp", 400, email, otp,
                       [message |-> "OTP has expired. Please request a new one."])
                /\ UNCHANGED verifiedOtp
           ELSE /\ RespondWith(r, "verify-otp", 200, email, otp,
                       [message |-> "OTP verified successfully",
                        userId |-> storedData.userId])
                /\ verifiedOtp' = [verifiedOtp EXCEPT ![email] = otp]
                /\ passwordResetCodes' = [passwordResetCodes EXCEPT ![email] = NoRec]
    /\ UNCHANGED <<now, dbVars, verificationCodes, otpStorage, nextOtp,
                   emailUpdates>>

VerifyOtp(r, email, otp) ==
    /\ req[r] = IdleReq
    /\ LET storedData == passwordResetCodes[email]
       IN  IF storedData = NoRec
           THEN /\ RespondWith(r, "verify-otp", 400, email, otp,
                       [message |-> "No password reset request found. Please request a new OTP."])
                /\ UNCHANGED <<passwordResetCodes, verifiedOtp>>
           ELSE IF storedData.resetCode # otp
           THEN /\ RespondWith(r, "verify-otp", 400, email, otp,
                       [message |-> "Invalid OTP"])
                /\ UNCHANGED <<passwordResetCodes, verifiedOtp>>
           ELSE IF now > storedData.codeExpiry
           THEN /\ passwordResetCodes' = [passwordResetCodes EXCEPT ![email] = NoRec]
                /\ RespondWith(r, "verify-otp", 400, email, otp,
                       [message |-> "OTP has expired. Please request a new one."])
                /\ UNCHANGED verifiedOtp
           ELSE /\ RespondWith(r, "verify-otp", 200, email, otp,
                       [message |-> "OTP verified successfully",
                        userId |-> storedData.userId])
                /\ verifiedOtp' = [verifiedOtp EXCEPT ![email] = otp]
                /\ UNCHANGED passwordResetCodes
    /\ UNCHANGED <<now, dbVars, verificationCodes, otpStorage, nextOtp,
                   emailUpdates>>

(***************************************************************************)
(* POST /reset-password                              server.js:887-938     *)
(***************************************************************************)
ResetPasswordStart(r, email, newPassword) ==
    /\ req[r] = IdleReq
    /\ Suspend(r, [h |-> "reset-password", step |-> "userQuery", email |-> email,
                   newPassword |-> newPassword])
    /\ UNCHANGED <<now, dbVars, mapVars, verifiedOtp, emailUpdates>>

ResetPasswordUserQuery(r, ok) ==
    /\ At(r, "reset-password", "userQuery")
    /\ LET rows == ProfilesByEmail(req[r].email)
       IN  IF ~ok
           THEN Respond(r, "reset-password", 500, req[r].email, "")
           ELSE IF rows = {}
           THEN Respond(r, "reset-password", 404, req[r].email, "")
           ELSE \E row \in rows :
                Suspend(r, [h |-> "reset-password", step |-> "update",
                            email |-> req[r].email,
                            newPassword |-> req[r].newPassword,
                            userId |-> row.user_id])
    /\ UNCHANGED <<now, dbVars, mapVars, verifiedOtp, emailUpdates>>

\* A reset-password that consumes the reset code of the email.
ResetPasswordUpdateMutConsumesCode(r, ok) ==
    /\ At(r, "reset-password", "update")
    /\ IF ok
       THEN /\ user_credentials' =
                   {IF c.user_id = req[r].userId
                    THEN [c EXCEPT !.password = Hash(req[r].newPassword)]
                    ELSE c : c \in user_credentials}
            /\ passwordResetCodes' =
                   [passwordResetCodes EXCEPT ![req[r].email] = NoRec]
            /\ Respond(r, "reset-password", 200, req[r].email, "")
       ELSE /\ Respond(r, "reset-password", 500, req[r].email, "")
            /\ UNCHANGED <<user_credentials, passwordResetCodes>>
    /\ UNCHANGED <<now, user_profiles, nextUserId, verificationCodes, otpStorage,
                   nextOtp, verifiedOtp, emailUpdates>>

ResetPasswordUpdate(r, ok) ==
    /\ At(r, "reset-password", "update")
    /\ IF ok
       THEN /\ user_credentials' =
                   {IF c.user_id = req[r].userId
                    THEN [c EXCEPT !.password = Hash(req[r].newPassword)]
                    ELSE c : c \in user_credentials}
            /\ Respond(r, "reset-password", 200, req[r].email, "")
       ELSE /\ Respond(r, "reset-password", 500, req[r].email, "")
            /\ UNCHANGED user_credentials
    /\ UNCHANGED <<now, user_profiles, nextUserId, mapVars, verifiedOtp,
                   emailUpdates>>

(***************************************************************************)
(* POST /change-password                             server.js:187-274     *)
(***************************************************************************)
\* A password column that is NULL, and a request field that is missing.
NoHash == <<>>
NoField == ""
NoUserId == 0

ChangePasswordStart(r, uid, currentPassword, newPassword) ==
    /\ req[r] = IdleReq
    /\ IF uid = NoUserId \/ currentPassword = NoField \/ newPassword = NoField
       THEN Respond(r, "change-password", 400, uid, "")
       ELSE Suspend(r, [h |-> "change-password", step |-> "verifyQuery",
                        user_id |-> uid, currentPassword |-> currentPassword,
                        newPassword |-> newPassword])
    /\ UNCHANGED <<now, dbVars, mapVars, verifiedOtp, emailUpdates>>

\* The handler without its bcrypt.compare: any current password passes.
ChangePasswordVerifyQueryMutNoCompare(r, ok) ==
    /\ At(r, "change-password", "verifyQuery")
    /\ LET uid == req[r].user_id
           rows == {c \in user_credentials : c.user_id = uid}
       IN  IF ~ok
           THEN Respond(r, "change-password", 500, uid, "")
           ELSE IF rows = {}
           THEN Respond(r, "change-password", 404, uid, "")
           ELSE \E row \in rows :
                IF row.password = NoHash
                THEN Respond(r, "change-password", 400, uid, "")
                ELSE IF FALSE
                THEN Respond(r, "change-password", 401, uid, "")
                ELSE Suspend(r, [h |-> "change-password", step |-> "update",
                                 user_id |-> uid,
                                 newPassword |-> req[r].newPassword])
    /\ UNCHANGED <<now, dbVars, mapVars, verifiedOtp, emailUpdates>>

\* verifyQuery answered; bcrypt.compare, bcrypt.genSalt and bcrypt.hash.
ChangePasswordVerifyQuery(r, ok) ==
    /\ At(r, "change-password", "verifyQuery")
    /\ LET uid == req[r].user_id
           rows == {c \in user_credentials : c.user_id = uid}
       IN  IF ~ok
           THEN Respond(r, "change-password", 500, uid, "")
           ELSE IF rows = {}
           THEN Respond(r, "change-password", 404, uid, "")
           ELSE \E row \in rows :
                IF row.password = NoHash
                THEN Respond(r, "change-password", 400, uid, "")
                ELSE IF ~Compare(req[r].currentPassword, row.password)
                THEN Respond(r, "change-password", 401, uid, "")
                ELSE Suspend(r, [h |-> "change-password", step |-> "update",
                                 user_id |-> uid,
                                 newPassword |-> req[r].newPassword])
    /\ UNCHANGED <<now, dbVars, mapVars, verifiedOtp, emailUpdates>>

ChangePasswordUpdate(r, ok) ==
    /\ At(r, "change-password", "update")
    /\ IF ok
       THEN /\ user_credentials' =
                   {IF c.user_id = req[r].user_id
                    THEN [c EXCEPT !.password = Hash(req[r].newPassword)]
                    ELSE c : c \in user_credentials}
            /\ Respond(r, "change-password", 200, req[r].user_id, "")
       ELSE /\ Respond(r, "change-password", 500, req[r].user_id, "")
            /\ UNCHANGED user_credentials
    /\ UNCHANGED <<now, user_profiles, nextUserId, mapVars, verifiedOtp,
                   emailUpdates>>

(***************************************************************************)
(* POST /verify-email-change                         server.js:276-366     *)
(***************************************************************************)
VerifyEmailChangeStart(r, uid, password, newEmail) ==
    /\ req[r] = IdleReq
    /\ Suspend(r, [h |-> "verify-email-change", step |-> "emailQuery",
                   user_id |-> uid, password |-> password, newEmail |-> newEmail])
    /\ UNCHANGED <<now, dbVars, mapVars, verifiedOtp, emailUpdates>>

VerifyEmailChangeEmailQuery(r, ok) ==
    /\ At(r, "verify-email-change", "emailQuery")
    /\ IF ~ok
       THEN Respond(r, "verify-email-change", 500, req[r].user_id, "")
       ELSE IF ProfilesByEmail(req[r].newEmail) # {}
       THEN Respond(r, "verify-email-change", 400, req[r].user_id, "")
       ELSE Suspend(r, [req[r] EXCEPT !.step = "verifyQuery"])
    /\ UNCHANGED <<now, dbVars, mapVars, verifiedOtp, emailUpdates>>

\* The handler without its bcrypt.compare: any password passes.
VerifyEmailChangeVerifyQueryMutNoCompare(r, ok, otp) ==
    /\ At(r, "verify-email-change", "verifyQuery")
    /\ LET uid == req[r].user_id
           rows == CredentialsJoinProfiles(uid)
       IN  IF ~ok
           THEN /\ Respond(r, "verify-email-change", 500, uid, "")
                /\ UNCHANGED <<otpStorage, nextOtp>>
           ELSE IF rows = {}
           THEN /\ Respond(r, "verify-email-change", 404, uid, "")
                /\ UNCHANGED <<otpStorage, nextOtp>>
           ELSE \E row \in rows :
                IF FALSE
                THEN /\ Respond(r, "verify-email-change", 401, uid, "")
                     /\ UNCHANGED <<otpStorage, nextOtp>>
                ELSE /\ nextOtp <= MaxOtps
                     /\ otpStorage' =
                            [otpStorage EXCEPT ![uid] =
                                [otp |-> otp, newEmail |-> req[r].newEmail,
                                 timestamp |-> now, id |-> nextOtp]]
                     /\ nextOtp' = nextOtp + 1
                     /\ Suspend(r, [h |-> "verify-email-change",
                                    step |-> "sendMail", user_id |-> uid])
    /\ UNCHANGED <<now, dbVars, verificationCodes, passwordResetCodes,
                   verifiedOtp, emailUpdates>>

VerifyEmailChangeVerifyQuery(r, ok, otp) ==
    /\ At(r, "verify-email-change", "verifyQuery")
    /\ LET uid == req[r].user_id
           rows == CredentialsJoinProfiles(uid)
       IN  IF ~ok
           THEN /\ Respond(r, "verify-email-change", 500, uid, "")
                /\ UNCHANGED <<otpStorage, nextOtp>>
           ELSE IF rows = {}
           THEN /\ Respond(r, "verify-email-change", 404, uid, "")
                /\ UNCHANGED <<otpStorage, nextOtp>>
           ELSE \E row \in rows :
                IF ~Compare(req[r].password, row.password)
                THEN /\ Respond(r, "verify-email-change", 401, uid, "")
                     /\ UNCHANGED <<otpStorage, nextOtp>>
                ELSE /\ nextOtp <= MaxOtps
                     /\ otpStorage' =
                            [otpStorage EXCEPT ![uid] =
                                [otp |-> otp, newEmail |-> req[r].newEmail,
                                 timestamp |-> now, id |-> nextOtp]]
                     /\ nextOtp' = nextOtp + 1
                     /\ Suspend(r, [h |-> "verify-email-change",
                                    step |-> "sendMail", user_id |-> uid])
    /\ UNCHANGED <<now, dbVars, verificationCodes, passwordResetCodes,
                   verifiedOtp, emailUpdates>>

VerifyEmailChangeMail(r, ok) ==
    /\ At(r, "verify-email-change", "sendMail")
    /\ Respond(r, "verify-email-change", IF ok THEN 200 ELSE 500,
               req[r].user_id, "")
    /\ UNCHANGED <<now, dbVars, mapVars, verifiedOtp, emailUpdates>>

(***************************************************************************)
(* POST /confirm-email-change                        server.js:368-466     *)
(***************************************************************************)
\* The record exists, is not older than ten minutes and carries the OTP.
ConfirmEmailChangeValid(storage, time, uid, otp) ==
    /\ storage[uid] # NoRec
    /\ ~(time - storage[uid].timestamp > OTP_TTL)
    /\ ~(storage[uid].otp # otp)

\* A handler that throws the record away on the first wrong OTP.
ConfirmEmailChangeStartMutBurn(r, uid, otp) ==
    /\ req[r] = IdleReq
    /\ LET storedData == otpStorage[uid]
       IN  IF storedData = NoRec
           THEN /\ Respond(r, "confirm-email-change", 400, uid, otp)
                /\ UNCHANGED otpStorage
           ELSE IF now - storedData.timestamp > OTP_TTL
           THEN /\ otpStorage' = [otpStorage EXCEPT ![uid] = NoRec]
                /\ Respond(r, "confirm-email-change", 400, uid, otp)
           ELSE IF storedData.otp # otp
           THEN /\ Respond(r, "confirm-email-change", 400, uid, otp)
                /\ otpStorage' = [otpStorage EXCEPT ![uid] = NoRec]
           ELSE /\ Suspend(r, [h |-> "confirm-email-change", step |-> "update",
                               user_id |-> uid, otp |-> otp,
                               newEmail |-> storedData.newEmail,
                               id |-> storedData.id])
                /\ UNCHANGED otpStorage
    /\ UNCHANGED <<now, dbVars, verificationCodes, passwordResetCodes, nextOtp,
                   verifiedOtp, emailUpdates>>

\* The checks in another order: the OTP is compared before the expiry.
ConfirmEmailChangeStartMutCodeFirst(r, uid, otp) ==
    /\ req[r] = IdleReq
    /\ LET storedData == otpStorage[uid]
       IN  IF storedData = NoRec
           THEN /\ Respond(r, "confirm-email-change", 400, uid, otp)
                /\ UNCHANGED otpStorage
           ELSE IF storedData.otp # otp
           THEN /\ Respond(r, "confirm-email-change", 400, uid, otp)
                /\ UNCHANGED otpStorage
           ELSE IF now - storedData.timestamp > OTP_TTL
           THEN /\ otpStorage' = [otpStorage EXCEPT ![uid] = NoRec]
                /\ Respond(r, "confirm-email-change", 400, uid, otp)
           ELSE /\ Suspend(r, [h |-> "confirm-email-change", step |-> "update",
                               user_id |-> uid, otp |-> otp,
                               newEmail |-> storedData.newEmail,
                               id |-> storedData.id])
                /\ UNCHANGED otpStorage
    /\ UNCHANGED <<now, dbVars, verificationCodes, passwordResetCodes, nextOtp,
                   verifiedOtp, emailUpdates>>

ConfirmEmailChangeStart(r, uid, otp) ==
    /\ req[r] = IdleReq
    /\ LET storedData == otpStorage[uid]
       IN  IF storedData = NoRec
           THEN /\ Respond(r, "confirm-email-change", 400, uid, otp)
                /\ UNCHANGED otpStorage
           ELSE IF now - storedData.timestamp > OTP_TTL
           THEN /\ otpStorage' = [otpStorage EXCEPT ![uid] = NoRec]
                /\ Respond(r, "confirm-email-change", 400, uid, otp)
           ELSE IF storedData.otp # otp
           THEN /\ Respond(r, "confirm-email-change", 400, uid, otp)
                /\ UNCHANGED otpStorage
           ELSE /\ Suspend(r, [h |-> "confirm-email-change", step |-> "update",
                               user_id |-> uid, otp |-> otp,
                               newEmail |-> storedData.newEmail,
                               id |-> storedData.id])
                /\ UNCHANGED otpStorage
    /\ UNCHANGED <<now, dbVars, verificationCodes, passwordResetCodes, nextOtp,
                   verifiedOtp, emailUpdates>>

ConfirmEmailChangeUpdate(r, ok) ==
    /\ At(r, "confirm-email-change", "update")
    /\ IF ok
       THEN /\ user_profiles' =
                   {IF p.user_id = req[r].user_id
                    THEN [p EXCEPT !.email = req[r].newEmail]
                    ELSE p : p \in user_profiles}
            /\ otpStorage' = [otpStorage EXCEPT ![req[r].user_id] = NoRec]
            /\ emailUpdates' = [emailUpdates EXCEPT ![req[r].id] = @ + 1]
            /\ Respond(r, "confirm-email-change", 200, req[r].user_id, req[r].otp)
       ELSE /\ Respond(r, "confirm-email-change", 500, req[r].user_id, req[r].otp)
            /\ UNCHANGED <<user_profiles, otpStorage, emailUpdates>>
    /\ UNCHANGED <<now, user_credentials, nextUserId, verificationCodes,
                   passwordResetCodes, nextOtp, verifiedOtp>>

(***************************************************************************)
(* POST /login                                       server.js:1004-1066   *)
(***************************************************************************)
\* What a client may send as identifier and as password: a username, an
\* email, either with a blank in front, a name nobody has, or nothing.
Identifiers == {"u1", " u1", "a", "zz", NoField}
LoginPasswords == {"p", " p", "q", NoField}

\* String.prototype.trim on the values above.
Trim(str) ==
    IF str = " u1" THEN "u1" ELSE IF str = " p" THEN "p" ELSE str

\* SELECT ... FROM user_credentials uc LEFT JOIN user_profiles up
\* ON uc.user_id = up.user_id WHERE uc.username = @param0 OR up.email = @param0
LoginRows(identifier) ==
    {uc \in user_credentials :
        \/ uc.username = identifier
        \/ \E up \in user_profiles :
               up.user_id = uc.user_id /\ up.email = identifier}

LoginStart(r, identifier, password) ==
    /\ req[r] = IdleReq
    /\ IF identifier = NoField \/ password = NoField
       THEN RespondWith(r, "login", 400, identifier, "",
                        [message |-> "Missing required fields"])
       ELSE Suspend(r, [h |-> "login", step |-> "query",
                        identifier |-> identifier, password |-> password])
    /\ UNCHANGED <<now, dbVars, mapVars, verifiedOtp, emailUpdates>>

\* The answer of the earlier servers to an unknown identifier.
LoginQueryMutUserNotFound(r, ok) ==
    /\ At(r, "login", "query")
    /\ LET rows == LoginRows(Trim(req[r].identifier))
       IN  IF ~ok
           THEN RespondWith(r, "login", 500, req[r].identifier, "",
                            [message |-> "An error occurred during login"])
           ELSE IF rows = {}
           THEN RespondWith(r, "login", 400, req[r].identifier, "",
                            [message |-> "User not found"])
           ELSE \E user \in rows :
                IF user.password = NoHash
                THEN RespondWith(r, "login", 500, req[r].identifier, "",
                                 [message |-> "An error occurred during login"])
                ELSE IF ~Compare(Trim(req[r].password), user.password)
                THEN RespondWith(r, "login", 400, req[r].identifier, "",
                                 [message |-> "Invalid credentials"])
                ELSE RespondWith(r, "login", 200, req[r].identifier, "",
                                 [message |-> "Login successful",
                                  userId |-> user.user_id])
    /\ UNCHANGED <<now, dbVars, mapVars, verifiedOtp, emailUpdates>>

\* The query answered; bcrypt.compare, which rejects when the stored hash
\* is NULL.
LoginQuery(r, ok) ==
    /\ At(r, "login", "query")
    /\ LET rows == LoginRows(Trim(req[r].identifier))
       IN  IF ~ok
           THEN RespondWith(r, "login", 500, req[r].identifier, "",
                            [message |-> "An error occurred during login"])
           ELSE IF rows = {}
           THEN RespondWith(r, "login", 400, req[r].identifier, "",
                            [message |-> "Invalid credentials"])
           ELSE \E user \in rows :
                IF user.password = NoHash
                THEN RespondWith(r, "login", 500, req[r].identifier, "",
                                 [message |-> "An error occurred during login"])
                ELSE IF ~Compare(Trim(req[r].password), user.password)
                THEN RespondWith(r, "login", 400, req[r].identifier, "",
                                 [message |-> "Invalid credentials"])
                ELSE RespondWith(r, "login", 200, req[r].identifier, "",
                                 [message |-> "Login successful",
                                  userId |-> user.user_id])
    /\ UNCHANGED <<now, dbVars, mapVars, verifiedOtp, emailUpdates>>

(***************************************************************************)
(* POST /save                                        server.js:1221-1303   *)
(***************************************************************************)
\* The values a field of the JSON body can have.
Undefined == [t |-> "undefined"]
Null == [t |-> "null"]
Num(n) == [t |-> "number", v |-> n]
Str(str) == [t |-> "string", v |-> str]

\* !x
Falsy(x) ==
    \/ x.t \in {"undefined", "null"}
    \/ x.t = "number" /\ x.v = 0
    \/ x.t = "string" /\ x.v = ""

\* What the clients send.
ProfileIds == {Undefined, Num(0), Num(7)}
Predictions == {Undefined, Null, Num(0), Str("1")}
Scores == {Undefined, Null, Num(0)}
Images == {Undefined, Str(""), Str("img")}

\* user_profile_id.toString(), parseInt(.., 10) and parseFloat on the values
\* above.
UserIdToString(x) == IF x.v = 7 THEN "7" ELSE "0"
ParseInt(x) == IF x.t = "string" THEN (IF x.v = "1" THEN 1 ELSE 0) ELSE x.v
ParseFloat(x) == x.v

\* The test on disease_prediction written as !disease_prediction.
SaveStartMutFalsy(r, user_profile_id, disease_prediction, disease_prediction_score, scan_image) ==
    /\ req[r] = IdleReq
    /\ LET body == [user_profile_id |-> user_profile_id,
                    disease_prediction |-> disease_prediction,
                    disease_prediction_score |-> disease_prediction_score,
                    scan_image |-> scan_image]
           m1 == IF Falsy(scan_image) THEN <<"scan_image">> ELSE <<>>
           m2 == IF Falsy(user_profile_id)
                 THEN Append(m1, "user_profile_id") ELSE m1
           m3 == IF disease_prediction_score = Null
                    \/ disease_prediction_score = Undefined
                 THEN Append(m2, "disease_prediction_score") ELSE m2
           missingFields ==
                 IF Falsy(disease_prediction)
                 THEN Append(m3, "disease_prediction") ELSE m3
       IN  IF Len(missingFields) > 0
           THEN RespondWith(r, "save", 400, body, "",
                            [message |-> "Missing required fields",
                             missingFields |-> missingFields])
           ELSE Suspend(r, [h |-> "save", step |-> "leafScan", body |-> body])
    /\ UNCHANGED <<now, dbVars, mapVars, verifiedOtp, emailUpdates, scanVars>>

SaveStart(r, user_profile_id, disease_prediction, disease_prediction_score, scan_image) ==
    /\ req[r] = IdleReq
    /\ LET body == [user_profile_id |-> user_profile_id,
                    disease_prediction |-> disease_prediction,
                    disease_prediction_score |-> disease_prediction_score,
                    scan_image |-> scan_image]
           m1 == IF Falsy(scan_image) THEN <<"scan_image">> ELSE <<>>
           m2 == IF Falsy(user_profile_id)
                 THEN Append(m1, "user_profile_id") ELSE m1
           m3 == IF disease_prediction_score = Null
                    \/ disease_prediction_score = Undefined
                 THEN Append(m2, "disease_prediction_score") ELSE m2
           missingFields ==
                 IF disease_prediction = Null
                    \/ disease_prediction = Undefined
                 THEN Append(m3, "disease_prediction") ELSE m3
       IN  IF Len(missingFields) > 0
           THEN RespondWith(r, "save", 400, body, "",
                            [message |-> "Missing required fields",
                             missingFields |-> missingFields])
           ELSE Suspend(r, [h |-> "save", step |-> "leafScan", body |-> body])
    /\ UNCHANGED <<now, dbVars, mapVars, verifiedOtp, emailUpdates, scanVars>>

\* leafScanQuery answered: INSERT INTO rice_leaf_scan; SELECT SCOPE_IDENTITY().
SaveLeafScan(r, ok) ==
    /\ At(r, "save", "leafScan")
    /\ ok => nextScanId <= MaxScans
    /\ IF ok
       THEN /\ rice_leaf_scan' = rice_leaf_scan \cup
                   {[rice_leaf_scan_id |-> nextScanId,
                     user_id |-> UserIdToString(req[r].body.user_profile_id),
                     rice_leaf_disease_id |-> ParseInt(req[r].body.disease_prediction),
                     disease_confidence_score |->
                         ParseFloat(req[r].body.disease_prediction_score),
                     scan_image |-> req[r].body.scan_image.v]}
            /\ nextScanId' = nextScanId + 1
            /\ Suspend(r, [h |-> "save", step |-> "history", body |-> req[r].body,
                           rice_leaf_scan_id |-> nextScanId])
       ELSE /\ RespondWith(r, "save", 500, req[r].body, "",
                           [message |-> "Server error during scan data saving"])
            /\ UNCHANGED <<rice_leaf_scan, nextScanId>>
    /\ UNCHANGED <<now, dbVars, mapVars, verifiedOtp, emailUpdates, scan_history>>

\* Both inserts in one transaction: a failed history insert takes the scan
\* row back.
SaveHistoryMutRollback(r, ok) ==
    /\ At(r, "save", "history")
    /\ IF ok
       THEN /\ scan_history' = scan_history \cup {req[r].rice_leaf_scan_id}
            /\ RespondWith(r, "save", 201, req[r].body, "",
                           [message |-> "Scan data saved successfully",
                            rice_leaf_scan_id |-> req[r].rice_leaf_scan_id])
       ELSE /\ RespondWith(r, "save", 500, req[r].body, "",
                           [message |-> "Server error during scan data saving"])
            /\ UNCHANGED scan_history
    /\ rice_leaf_scan' =
           IF ok THEN rice_leaf_scan
           ELSE {row \in rice_leaf_scan :
                    row.rice_leaf_scan_id # req[r].rice_leaf_scan_id}
    /\ UNCHANGED <<now, dbVars, mapVars, verifiedOtp, emailUpdates, nextScanId>>

\* scanHistoryQuery answered: INSERT INTO scan_history.
SaveHistory(r, ok) ==
    /\ At(r, "save", "history")
    /\ IF ok
       THEN /\ scan_history' = scan_history \cup {req[r].rice_leaf_scan_id}
            /\ RespondWith(r, "save", 201, req[r].body, "",
                           [message |-> "Scan data saved successfully",
                            rice_leaf_scan_id |-> req[r].rice_leaf_scan_id])
       ELSE /\ RespondWith(r, "save", 500, req[r].body, "",
                           [message |-> "Server error during scan data saving"])
            /\ UNCHANGED scan_history
    /\ UNCHANGED <<now, dbVars, mapVars, verifiedOtp, emailUpdates,
                   rice_leaf_scan, nextScanId>>

(***************************************************************************)
(* Specifications                                                          *)
(***************************************************************************)
SpecPool == Init /\ [][NextPool]_vars

(***************************************************************************)
(* SIGINT: the handler has no await, so it runs in one piece.  The loop    *)
(* over the pool is inside one try: the first close() that throws ends it. *)
(* throwAt is the position whose close() throws, 0 if none does.           *)
(* server.js:1391-1404                                                     *)
(***************************************************************************)
Sigint(throwAt) ==
    /\ ~exited
    /\ throwAt \in 0..Len(connectionPool)
    /\ throwAt # 0 => connState[connectionPool[throwAt]] # "Final"
    /\ LET last == IF throwAt = 0 THEN Len(connectionPool) ELSE throwAt
           called == {connectionPool[i] : i \in
                        {j \in 1..last : connState[connectionPool[j]] # "Final"}}
           closed == IF throwAt = 0 THEN called
                     ELSE called \ {connectionPool[throwAt]}
       IN  /\ closeCalled' = called
           /\ connState' = [k \in ConnIds |->
                               IF k \in closed THEN "Final" ELSE connState[k]]
    /\ exited' = TRUE
    /\ UNCHANGED <<connectionPool, connRequest, nextConn, pc, connection,
                   result, results, resolvedRows, requestError>>

\* The pool until the process is told to stop.
NextShutdown ==
    \/ /\ ~exited
       /\ NextPool
    \/ /\ \E throwAt \in 0..(MAX_POOL_SIZE + 1) : Sigint(throwAt)
       /\ UNCHANGED <<authVars, scanVars, profileVars, codeVars>>

SpecShutdown == Init /\ [][NextShutdown]_vars

\* The calls of the specification of one query's answer.
QueryCallers == {1, 2}

\* The pool with the answers of its queries: rows and error tokens.
NextQuery ==
    /\ \/ \E c \in QueryCallers : ExecuteQueryStart(c)
       \/ \E c \in QueryCallers : ConnectOk(c)
       \/ \E c \in QueryCallers : ConnectFail(c)
       \/ \E c \in QueryCallers : PollTick(c)
       \/ \E c \in QueryCallers : ExecSql(c)
       \/ \E k \in ConnIds : RowEvent(k)
       \/ \E k \in ConnIds : ErrorToken(k)
       \/ \E k \in ConnIds : RequestDone(k, requestError[k])
       \/ \E k \in ConnIds : ConnectionLost(k)
    /\ UNCHANGED <<authVars, shutdownVars, scanVars, profileVars, codeVars>>

SpecQuery == Init /\ [][NextQuery]_vars

NextSignup ==
    /\ \/ Tick
       \/ \E r \in Reqs, u \in Usernames, e \in Emails, p \in Passwords :
              PreSignupStart(r, u, e, p)
       \/ \E r \in Reqs, ok \in BOOLEAN, code \in Codes :
              PreSignupEmailQuery(r, ok, code)
       \/ \E r \in Reqs, ok \in BOOLEAN : PreSignupMail(r, ok)
       \/ \E r \in Reqs, e \in Emails, code \in Codes :
              CompleteSignupStart(r, e, code)
       \/ \E r \in Reqs, ok \in BOOLEAN : CompleteSignupHash(r, ok)
       \/ \E r \in Reqs, ok \in BOOLEAN : CompleteSignupInsert(r, ok)
       \/ \E r \in Reqs, e \in Emails, code \in Codes :
              ResendVerificationStart(r, e, code)
       \/ \E r \in Reqs, ok \in BOOLEAN : ResendVerificationMail(r, ok)
    /\ UNCHANGED <<poolVars, shutdownVars, before, scanVars, profileVars, codeVars>>

SpecSignup == Init /\ [][NextSignup]_vars

\* The earlier server: /signup with its two inserts.
NextSignupV0 ==
    /\ \/ \E r \in Reqs, u \in Usernames, e \in Emails, p \in Passwords :
              SignupStart(r, u, e, p)
       \/ \E r \in Reqs, ok \in BOOLEAN : SignupInsertCredentials(r, ok)
       \/ \E r \in Reqs, ok \in BOOLEAN : SignupInsertProfile(r, ok)
    /\ UNCHANGED <<poolVars, shutdownVars, before, scanVars, profileVars, codeVars>>

SpecSignupV0 == Init /\ [][NextSignupV0]_vars

\* The requests of the password reset workflow: two at a time.
ResetReqs == {1, 2}

NextReset ==
    /\ \/ Tick
       \/ \E r \in ResetReqs, h \in {"forgot-password", "resend-password-otp"},
             e \in Emails : ForgotPasswordStart(r, h, e)
       \/ \E r \in ResetReqs, ok \in BOOLEAN, code \in Codes :
              ForgotPasswordEmailQuery(r, ok, code)
       \/ \E r \in ResetReqs, ok \in BOOLEAN : ForgotPasswordMail(r, ok)
       \/ \E r \in ResetReqs, e \in Emails, otp \in Codes : VerifyOtp(r, e, otp)
       \/ \E r \in ResetReqs, e \in Emails, p \in Passwords :
              ResetPasswordStart(r, e, p)
       \/ \E r \in ResetReqs, ok \in BOOLEAN : ResetPasswordUserQuery(r, ok)
       \/ \E r \in ResetReqs, ok \in BOOLEAN : ResetPasswordUpdate(r, ok)
    /\ UNCHANGED <<poolVars, shutdownVars, before, scanVars, profileVars, codeVars>>

SpecReset == Init /\ [][NextReset]_vars

NextEmail ==
    /\ \/ Tick
       \/ \E r \in Reqs, u \in UserIds, p \in Passwords, e \in Emails :
              VerifyEmailChangeStart(r, u, p, e)
       \/ \E r \in Reqs, ok \in BOOLEAN : VerifyEmailChangeEmailQuery(r, ok)
       \/ \E r \in Reqs, ok \in BOOLEAN, otp \in Codes :
              VerifyEmailChangeVerifyQuery(r, ok, otp)
       \/ \E r \in Reqs, ok \in BOOLEAN : VerifyEmailChangeMail(r, ok)
       \/ \E r \in Reqs, u \in UserIds, otp \in Codes :
              ConfirmEmailChangeStart(r, u, otp)
       \/ \E r \in Reqs, ok \in BOOLEAN : ConfirmEmailChangeUpdate(r, ok)
    /\ UNCHANGED <<poolVars, shutdownVars, before, scanVars, profileVars, codeVars>>

SpecEmail == Init /\ [][NextEmail]_vars

\* The handlers that issue a code and the handlers that accept one, side by
\* side, one request at a time, each with one fixed set of profile fields.
NextAuth ==
    /\ \/ Tick
       \/ \E r \in {1} : PreSignupStart(r, "u2", "b", "q")
       \/ \E r \in {1}, ok \in BOOLEAN, code \in Codes :
              PreSignupEmailQuery(r, ok, code)
       \/ \E r \in {1}, ok \in BOOLEAN : PreSignupMail(r, ok)
       \/ \E r \in {1}, code \in Codes : CompleteSignupStart(r, "b", code)
       \/ \E r \in {1}, ok \in BOOLEAN : CompleteSignupHash(r, ok)
       \/ \E r \in {1}, ok \in BOOLEAN : CompleteSignupInsert(r, ok)
       \/ \E r \in {1} : ForgotPasswordStart(r, "forgot-password", "a")
       \/ \E r \in {1}, ok \in BOOLEAN, code \in Codes :
              ForgotPasswordEmailQuery(r, ok, code)
       \/ \E r \in {1}, ok \in BOOLEAN : ForgotPasswordMail(r, ok)
       \/ \E r \in {1}, otp \in Codes : VerifyOtp(r, "a", otp)
       \/ \E r \in {1} : VerifyEmailChangeStart(r, 1, "p", "b")
       \/ \E r \in {1}, ok \in BOOLEAN : VerifyEmailChangeEmailQuery(r, ok)
       \/ \E r \in {1}, ok \in BOOLEAN, otp \in Codes :
              VerifyEmailChangeVerifyQuery(r, ok, otp)
       \/ \E r \in {1}, ok \in BOOLEAN : VerifyEmailChangeMail(r, ok)
       \/ \E r \in {1}, otp \in Codes : ConfirmEmailChangeStart(r, 1, otp)
       \/ \E r \in {1}, ok \in BOOLEAN : ConfirmEmailChangeUpdate(r, ok)
    /\ UNCHANGED <<poolVars, shutdownVars, before, scanVars, profileVars, codeVars>>

SpecAuth == Init /\ [][NextAuth]_vars

\* The three code-issuing handlers and the handlers that accept their codes,
\* one request at a time, with every choice of pending profile fields and of
\* new email, all within one unit of the clock.
NextIssue ==
    /\ \/ \E u \in Usernames, p \in Passwords : PreSignupStart(1, u, "b", p)
       \/ \E ok \in BOOLEAN, code \in Codes : PreSignupEmailQuery(1, ok, code)
       \/ \E ok \in BOOLEAN : PreSignupMail(1, ok)
       \/ \E code \in Codes : CompleteSignupStart(1, "b", code)
       \/ \E ok \in BOOLEAN : CompleteSignupHash(1, ok)
       \/ \E ok \in BOOLEAN : CompleteSignupInsert(1, ok)
       \/ \E h \in {"forgot-password", "resend-password-otp"} :
              ForgotPasswordStart(1, h, "a")
       \/ \E ok \in BOOLEAN, code \in Codes : ForgotPasswordEmailQuery(1, ok, code)
       \/ \E ok \in BOOLEAN : ForgotPasswordMail(1, ok)
       \/ \E otp \in Codes : VerifyOtp(1, "a", otp)
       \/ \E e \in Emails : VerifyEmailChangeStart(1, 1, "p", e)
       \/ \E ok \in BOOLEAN : VerifyEmailChangeEmailQuery(1, ok)
       \/ \E ok \in BOOLEAN, otp \in Codes : VerifyEmailChangeVerifyQuery(1, ok, otp)
       \/ \E ok \in BOOLEAN : VerifyEmailChangeMail(1, ok)
       \/ \E otp \in Codes : ConfirmEmailChangeStart(1, 1, otp)
       \/ \E ok \in BOOLEAN : ConfirmEmailChangeUpdate(1, ok)
    /\ UNCHANGED <<poolVars, shutdownVars, before, scanVars, profileVars, codeVars>>

SpecIssue == Init /\ [][NextIssue]_vars

\* The signup workflow, one request at a time: /pre-signup issues one code
\* value, /resend-verification-code either value.
NextResend ==
    /\ \/ Tick
       \/ \E u \in Usernames, p \in Passwords : PreSignupStart(1, u, "b", p)
       \/ \E ok \in BOOLEAN : PreSignupEmailQuery(1, ok, "100000")
       \/ \E ok \in BOOLEAN : PreSignupMail(1, ok)
       \/ \E e \in Emails, code \in Codes : ResendVerificationStart(1, e, code)
       \/ \E ok \in BOOLEAN : ResendVerificationMail(1, ok)
       \/ \E code \in Codes : CompleteSignupStart(1, "b", code)
       \/ \E ok \in BOOLEAN : CompleteSignupHash(1, ok)
       \/ \E ok \in BOOLEAN : CompleteSignupInsert(1, ok)
    /\ UNCHANGED <<poolVars, shutdownVars, before, scanVars, profileVars, codeVars>>

SpecResend == Init /\ [][NextResend]_vars

\* The email change workflow, one request at a time, for every user id,
\* password and new email.
NextEmailChange ==
    /\ \/ Tick
       \/ \E u \in UserIds, p \in Passwords, e \in Emails :
              VerifyEmailChangeStart(1, u, p, e)
       \/ \E ok \in BOOLEAN : VerifyEmailChangeEmailQuery(1, ok)
       \/ \E ok \in BOOLEAN, otp \in Codes :
              VerifyEmailChangeVerifyQuery(1, ok, otp)
       \/ \E ok \in BOOLEAN : VerifyEmailChangeMail(1, ok)
       \/ \E u \in UserIds, otp \in Codes : ConfirmEmailChangeStart(1, u, otp)
       \/ \E ok \in BOOLEAN : ConfirmEmailChangeUpdate(1, ok)
    /\ UNCHANGED <<poolVars, shutdownVars, before, scanVars, profileVars, codeVars>>

SpecEmailChange == Init /\ [][NextEmailChange]_vars

\* /change-password alone, two requests at a time, against a table that also
\* holds a user whose password column is NULL (the case of server.js:220).
ChangeReqs == {1, 2}

InitChangePassword ==
    /\ InitPool
    /\ InitScan
    /\ InitProfile
    /\ InitCode
    /\ now = 0
    /\ user_credentials =
           {[user_id |-> 1, username |-> "u1", password |-> Hash("p")],
            [user_id |-> 2, username |-> "u2", password |-> NoHash]}
    /\ user_profiles = {[user_id |-> 1, email |-> "a"],
                        [user_id |-> 2, email |-> "b"]}
    /\ nextUserId = 3
    /\ verificationCodes = [e \in Emails |-> NoRec]
    /\ passwordResetCodes = [e \in Emails |-> NoRec]
    /\ otpStorage = [u \in UserIds |-> NoRec]
    /\ nextOtp = 1
    /\ req = [r \in Reqs |-> IdleReq]
    /\ response = NoResponse
    /\ verifiedOtp = [e \in Emails |-> "none"]
    /\ emailUpdates = [i \in OtpIds |-> 0]
    /\ before = Snapshot

NextChangePassword ==
    /\ \/ \E r \in ChangeReqs, u \in UserIds \cup {NoUserId},
             p \in Passwords \cup {NoField}, n \in Passwords \cup {NoField} :
              ChangePasswordStart(r, u, p, n)
       \/ \E r \in ChangeReqs, ok \in BOOLEAN : ChangePasswordVerifyQuery(r, ok)
       \/ \E r \in ChangeReqs, ok \in BOOLEAN : ChangePasswordUpdate(r, ok)
    /\ UNCHANGED <<poolVars, shutdownVars, before, scanVars, profileVars, codeVars>>

SpecChangePassword == InitChangePassword /\ [][NextChangePassword]_vars

\* /login, two requests at a time.
LoginReqs == {1, 2}

NextLogin ==
    /\ \/ \E r \in LoginReqs, i \in Identifiers, p \in LoginPasswords :
              LoginStart(r, i, p)
       \/ \E r \in LoginReqs, ok \in BOOLEAN : LoginQuery(r, ok)
    /\ UNCHANGED <<poolVars, shutdownVars, before, scanVars, profileVars, codeVars>>

SpecLogin == Init /\ [][NextLogin]_vars

\* Two signups for one email at a time, within one unit of the clock.
SignupReqs == {1, 2}

NextSignupRace ==
    /\ \/ \E r \in SignupReqs, u \in Usernames : PreSignupStart(r, u, "b", "q")
       \/ \E r \in SignupReqs, ok \in BOOLEAN, code \in Codes :
              PreSignupEmailQuery(r, ok, code)
       \/ \E r \in SignupReqs, ok \in BOOLEAN : PreSignupMail(r, ok)
       \/ \E r \in SignupReqs, code \in Codes : CompleteSignupStart(r, "b", code)
       \/ \E r \in SignupReqs, ok \in BOOLEAN : CompleteSignupHash(r, ok)
       \/ \E r \in SignupReqs, ok \in BOOLEAN : CompleteSignupInsert(r, ok)
    /\ UNCHANGED <<poolVars, shutdownVars, before, scanVars, profileVars, codeVars>>

SpecSignupRace == Init /\ [][NextSignupRace]_vars

\* /save, one request at a time.
SaveReqs == {1}

NextSave ==
    /\ \/ \E r \in SaveReqs, u \in ProfileIds, d \in Predictions, sc \in Scores,
             img \in Images : SaveStart(r, u, d, sc, img)
       \/ \E r \in SaveReqs, ok \in BOOLEAN : SaveLeafScan(r, ok)
       \/ \E r \in SaveReqs, ok \in BOOLEAN : SaveHistory(r, ok)
    /\ UNCHANGED <<poolVars, shutdownVars, before, profileVars, codeVars>>

SpecSave == Init /\ [][NextSave]_vars

\* One pending registration: /pre-signup is sent only while the email has no
\* record, so one record is stored and never replaced, and /complete-signup
\* requests for it come in two at a time.
NextOneRecord ==
    /\ \/ /\ verificationCodes["b"] = NoRec
          /\ \E u \in Usernames, p \in Passwords : PreSignupStart(1, u, "b", p)
       \/ \E ok \in BOOLEAN, code \in Codes : PreSignupEmailQuery(1, ok, code)
       \/ \E ok \in BOOLEAN : PreSignupMail(1, ok)
       \/ \E r \in SignupReqs, code \in Codes : CompleteSignupStart(r, "b", code)
       \/ \E r \in SignupReqs, ok \in BOOLEAN : CompleteSignupHash(r, ok)
       \/ \E r \in SignupReqs, ok \in BOOLEAN : CompleteSignupInsert(r, ok)
    /\ UNCHANGED <<poolVars, shutdownVars, before, scanVars, profileVars, codeVars>>

SpecOneRecord == Init /\ [][NextOneRecord]_vars

\* Every workflow handler, one request at a time, with the state each
\* request found when it came in.  Codes are issued with one value (resent
\* with the other) and submitted with either.
NextFrame ==
    /\ \/ /\ Tick
          /\ UNCHANGED before
       \/ /\ \/ PreSignupStart(1, "u2", "b", "q")
             \/ \E code \in Codes : CompleteSignupStart(1, "b", code)
             \/ ResendVerificationStart(1, "b", "999999")
             \/ \E h \in {"forgot-password", "resend-password-otp"} :
                    ForgotPasswordStart(1, h, "a")
             \/ \E otp \in Codes : VerifyOtp(1, "a", otp)
             \/ \E e \in Emails : ResetPasswordStart(1, e, "q")
             \/ \E p \in Passwords : ChangePasswordStart(1, 1, p, "q")
             \/ \E p \in Passwords : VerifyEmailChangeStart(1, 1, p, "b")
             \/ \E otp \in Codes : ConfirmEmailChangeStart(1, 1, otp)
          /\ before' = Snapshot
       \/ /\ \/ \E ok \in BOOLEAN : PreSignupEmailQuery(1, ok, "100000")
             \/ \E ok \in BOOLEAN : PreSignupMail(1, ok)
             \/ \E ok \in BOOLEAN : CompleteSignupHash(1, ok)
             \/ \E ok \in BOOLEAN : CompleteSignupInsert(1, ok)
             \/ \E ok \in BOOLEAN : ResendVerificationMail(1, ok)
             \/ \E ok \in BOOLEAN : ForgotPasswordEmailQuery(1, ok, "100000")
             \/ \E ok \in BOOLEAN : ForgotPasswordMail(1, ok)
             \/ \E ok \in BOOLEAN : ResetPasswordUserQuery(1, ok)
             \/ \E ok \in BOOLEAN : ResetPasswordUpdate(1, ok)
             \/ \E ok \in BOOLEAN : ChangePasswordVerifyQuery(1, ok)
             \/ \E ok \in BOOLEAN : ChangePasswordUpdate(1, ok)
             \/ \E ok \in BOOLEAN : VerifyEmailChangeEmailQuery(1, ok)
             \/ \E ok \in BOOLEAN : VerifyEmailChangeVerifyQuery(1, ok, "100000")
             \/ \E ok \in BOOLEAN : VerifyEmailChangeMail(1, ok)
             \/ \E ok \in BOOLEAN : ConfirmEmailChangeUpdate(1, ok)
          /\ UNCHANGED before
    /\ UNCHANGED <<poolVars, shutdownVars, scanVars, profileVars, codeVars>>

SpecFrame == Init /\ [][NextFrame]_vars

(***************************************************************************)
(* PUT /api/profile/update                           server.js:1114-1195   *)
(***************************************************************************)
\* what the body can carry: a field left out (falsy) or a new value
Firstnames == {NoField, "f1"}
Lastnames == {NoField, "l1"}
Birthdates == {NoField, "d1"}
ContactNumbers == {NoField, "m1"}
ProfileImages == {NoField, "i1"}
\* userId as the clients send it: left out, a number, a string of digits
ProfileUserIds == {Undefined, Num(1), Str("1"), Num(2)}

\* updated_at = GETDATE() takes no parameter
NoPlaceholder == 0 - 1

\* if (field) { updateFields.push(`column = @param${paramIndex}`);
\*              params.push({ type, value }); paramIndex++; }
PushMutNoIncrement(acc, present, column, type, value) ==
    IF present
    THEN [updateFields |-> Append(acc.updateFields,
                                  [column |-> column, placeholder |-> acc.paramIndex]),
          params |-> Append(acc.params, [type |-> type, value |-> value]),
          paramIndex |-> acc.paramIndex]
    ELSE acc

Push(acc, present, column, type, value) ==
    IF present
    THEN [updateFields |-> Append(acc.updateFields,
                                  [column |-> column, placeholder |-> acc.paramIndex]),
          params |-> Append(acc.params, [type |-> type, value |-> value]),
          paramIndex |-> acc.paramIndex + 1]
    ELSE acc

\* executeQuery: params.forEach((param, index) =>
\*     request.addParameter(`param${index}`, param.type, param.value))
AddParameters(params) == [index \in 0..(Len(params) - 1) |-> params[index + 1]]

ProfileUpdateStart(r, userId, firstname, lastname, birthdate, contactNumber, image) ==
    /\ req[r] = IdleReq
    /\ LET body == [userId |-> userId, firstname |-> firstname,
                    lastname |-> lastname, birthdate |-> birthdate,
                    contactNumber |-> contactNumber, image |-> image]
           a0 == [updateFields |-> <<>>,
                  params |-> <<[type |-> "Int", value |-> ParseInt(userId)]>>,
                  paramIndex |-> 1]
           a1 == Push(a0, firstname # NoField, "firstname", "NVarChar", firstname)
           a2 == Push(a1, lastname # NoField, "lastname", "NVarChar", lastname)
           a3 == Push(a2, birthdate # NoField, "birthdate", "Date", Date(birthdate))
           a4 == Push(a3, contactNumber # NoField, "mobile_number", "NVarChar",
                      contactNumber)
           a5 == Push(a4, image # NoField, "profile_image", "NVarChar", image)
           updateFields == Append(a5.updateFields,
                                  [column |-> "updated_at",
                                   placeholder |-> NoPlaceholder])
       IN  IF Falsy(userId)
           THEN RespondWith(r, "profile-update", 400, body, "",
                            [message |-> "User ID is required"])
           ELSE Suspend(r, [h |-> "profile-update", step |-> "query", body |-> body,
                            updateFields |-> updateFields, params |-> a5.params])
    /\ UNCHANGED <<now, dbVars, mapVars, verifiedOtp, emailUpdates, profileVars>>

\* UPDATE user_profiles SET ... WHERE user_id = @param0; SELECT @@ROWCOUNT
\* answered.  A placeholder no parameter was added for is an error of the
\* batch.
ProfileUpdateQuery(r, ok) ==
    /\ At(r, "profile-update", "query")
    /\ LET bound == AddParameters(req[r].params)
           updateFields == req[r].updateFields
           declared == \A i \in 1..Len(updateFields) :
                          updateFields[i].placeholder # NoPlaceholder
                             => updateFields[i].placeholder \in DOMAIN bound
           rows == IF 0 \in DOMAIN bound
                   THEN {p \in user_profiles : p.user_id = bound[0].value}
                   ELSE {}
           rowsAffected == Cardinality(rows)
           Assigned(column, old) ==
               LET set == {i \in 1..Len(updateFields) :
                              updateFields[i].column = column}
                   last == CHOOSE i \in set : \A j \in set : j <= i
               IN  IF set = {} THEN old
                   ELSE IF updateFields[last].placeholder = NoPlaceholder THEN now
                   ELSE bound[updateFields[last].placeholder].value
           Updated(row) ==
               [firstname |-> Assigned("firstname", row.firstname),
                lastname |-> Assigned("lastname", row.lastname),
                birthdate |-> Assigned("birthdate", row.birthdate),
                mobile_number |-> Assigned("mobile_number", row.mobile_number),
                profile_image |-> Assigned("profile_image", row.profile_image),
                updated_at |-> Assigned("updated_at", row.updated_at)]
       IN  IF ~ok \/ ~declared \/ 0 \notin DOMAIN bound
           THEN /\ RespondWith(r, "profile-update", 500, req[r].body, "",
                               [message |-> "Failed to update profile"])
                /\ UNCHANGED profile_data
           ELSE /\ profile_data' =
                      [u \in UserIds |->
                          IF \E p \in rows : p.user_id = u
                          THEN Updated(profile_data[u]) ELSE profile_data[u]]
                /\ IF rowsAffected > 0
                   THEN RespondWith(r, "profile-update", 200, req[r].body, "",
                                    [message |-> "Profile updated successfully"])
                   ELSE RespondWith(r, "profile-update", 404, req[r].body, "",
                                    [message |-> "User profile not found"])
    /\ UNCHANGED <<now, dbVars, mapVars, verifiedOtp, emailUpdates>>

\* /api/profile/update, one request at a time.
ProfileReqs == {1}

NextProfile ==
    /\ \/ \E r \in ProfileReqs, u \in ProfileUserIds, f \in Firstnames,
             l \in Lastnames, b \in Birthdates, c \in ContactNumbers,
             i \in ProfileImages : ProfileUpdateStart(r, u, f, l, b, c, i)
       \/ \E r \in ProfileReqs, ok \in BOOLEAN : ProfileUpdateQuery(r, ok)
    /\ UNCHANGED <<poolVars, shutdownVars, before, scanVars, codeVars>>

SpecProfile == Init /\ [][NextProfile]_vars

(***************************************************************************)
(* generateVerificationCode                          server.js:175-178     *)
(* Math.floor(100000 + Math.random() * 900000).toString() in IEEE 754      *)
(* double arithmetic.  A number is [mant, frac]: the natural number whose  *)
(* binary digits are mant, lowest first, divided by 2^frac.                *)
(***************************************************************************)
\* the significand of a double has 53 binary digits
MantBits == 53

\* the binary digits of a small natural number, lowest first, w of them
IntBits(n, w) == [i \in 1..w |-> (n \div (2 ^ (i - 1))) % 2]

RECURSIVE AddBits(_, _, _)
AddBits(a, b, carry) ==
    IF a = <<>> /\ b = <<>>
    THEN (IF carry = 1 THEN <<1>> ELSE <<>>)
    ELSE LET x == IF a = <<>> THEN 0 ELSE Head(a)
             y == IF b = <<>> THEN 0 ELSE Head(b)
             sum == x + y + carry
         IN  <<sum % 2>> \o AddBits(IF a = <<>> THEN <<>> ELSE Tail(a),
                                    IF b = <<>> THEN <<>> ELSE Tail(b),
                                    sum \div 2)

ShiftLeft(a, n) == [i \in 1..n |-> 0] \o a

\* a times the natural number c below 2^30, digit by digit with a carry
RECURSIVE MulSmall(_, _, _)
MulSmall(a, c, carry) ==
    IF a = <<>> THEN IntBits(carry, 30)
    ELSE LET t == Head(a) * c + carry
         IN  <<t % 2>> \o MulSmall(Tail(a), c, t \div 2)

\* the position of the highest digit that is 1
BitLength(a) ==
    LET ones == {i \in 1..Len(a) : a[i] = 1}
    IN  IF ones = {} THEN 0 ELSE CHOOSE i \in ones : \A j \in ones : j <= i

\* The result of an operation as a float keeps it: 24 digits.
RoundToDoubleMutFloat32(x) ==
    LET length == BitLength(x.mant)
        d == length - 24
        q == SubSeq(x.mant, d + 1, length)
        half == x.mant[d] = 1
        sticky == \E i \in 1..(d - 1) : x.mant[i] = 1
        up == half /\ (sticky \/ q[1] = 1)
    IN  IF d <= 0 THEN x
        ELSE [mant |-> IF up THEN AddBits(q, <<1>>, 0) ELSE q, frac |-> x.frac - d]

\* The result of an operation as a double keeps it: the nearest number with
\* a significand of MantBits digits, the even one of two equally near.
RoundToDouble(x) ==
    LET length == BitLength(x.mant)
        d == length - MantBits
        q == SubSeq(x.mant, d + 1, length)
        half == x.mant[d] = 1
        sticky == \E i \in 1..(d - 1) : x.mant[i] = 1
        up == half /\ (sticky \/ q[1] = 1)
    IN  IF d <= 0 THEN x
        ELSE [mant |-> IF up THEN AddBits(q, <<1>>, 0) ELSE q, frac |-> x.frac - d]

\* x * c and c + x for a small natural number c
Times(x, c) == RoundToDouble([mant |-> MulSmall(x.mant, c, 0), frac |-> x.frac])
Plus(c, x) ==
    RoundToDouble([mant |-> AddBits(ShiftLeft(IntBits(c, 30), x.frac), x.mant, 0),
                   frac |-> x.frac])

\* Math.floor of a number below 2^30
MathFloor(x) ==
    LET int == SubSeq(x.mant, x.frac + 1, Len(x.mant))
        RECURSIVE Value(_)
        Value(a) == IF a = <<>> THEN 0 ELSE Head(a) + 2 * Value(Tail(a))
    IN  Value(int)

\* Number.prototype.toString of a natural number: its decimal digits
RECURSIVE NumberToString(_)
NumberToString(n) ==
    IF n < 10 THEN <<n>> ELSE Append(NumberToString(n \div 10), n % 10)

\* Math.random(): a double in [0, 1).  The significand has its low LowBits
\* and its top TopBits digits free and the digits between all 0 or all 1;
\* the value is the significand over 2^(MantBits + e).
RandomSource ==
    {[mant |-> IntBits(low, LowBits)
                  \o [i \in 1..(MantBits - LowBits - TopBits) |-> fill]
                  \o IntBits(top, TopBits),
      frac |-> MantBits + e] :
        low \in 0..(2 ^ LowBits - 1), fill \in {0, 1},
        top \in 0..(2 ^ TopBits - 1), e \in 0..MaxExp}

\* one call
generateVerificationCode(rnd) ==
    /\ generatedCode = NoCode
    /\ random' = rnd
    /\ generatedCode' = NumberToString(MathFloor(Plus(100000, Times(rnd, 900000))))

NextCode ==
    /\ \E rnd \in RandomSource : generateVerificationCode(rnd)
    /\ UNCHANGED <<poolVars, shutdownVars, authVars, scanVars, profileVars>>

SpecCode == Init /\ [][NextCode]_vars

Next ==
    NextPool \/ NextQuery \/ NextShutdown \/ NextSignup \/ NextSignupV0 \/ NextReset \/ NextEmail \/ NextAuth
    \/ NextFrame \/ NextIssue \/ NextResend \/ NextEmailChange
    \/ NextChangePassword \/ NextLogin \/ NextSignupRace \/ NextSave \/ NextOneRecord
    \/ NextProfile \/ NextCode

Spec == Init /\ [][Next]_vars


----------------------------------------------------------------------------
(***************************************************************************)
(* Properties of the pool.                                                 *)
(***************************************************************************)

\* C1: in every reachable state connectionPool.length <= MAX_POOL_SIZE, also
\* with calls suspended in createNewConnection between the size check and
\* the push.
C1_PoolBound == Len(connectionPool) <= MAX_POOL_SIZE

\* A call holds a connection from the moment getConnection resolved with it
\* until its request has finished.
Holds(c, k) == pc[c] \in {"granted", "executing"} /\ connection[c] = k

\* C2: a connection getConnection returned to one executeQuery call is not
\* returned to another call before the first call's request has finished.
C2_NoDoubleIssue ==
    \A c1, c2 \in Callers, k \in ConnIds :
        (Holds(c1, k) /\ Holds(c2, k)) => c1 = c2

\* A step in which getConnection hands connection k to call c.
Issued(c, k) == connection'[c] = k /\ connection[c] # k

\* C8: a connection that is Final is never handed out by getConnection,
\* neither by the find at the call nor by a poll tick.
C8_FinalNeverIssued ==
    [][\A c \in Callers, k \in ConnIds :
          Issued(c, k) => (connState[k] # "Final" /\ connState'[k] # "Final")]_vars

\* C8 witness: a call waits in the poll loop while the pool holds a Final
\* entry in front of an available one, which the next tick has to skip.
C8_Witness ==
    \E c \in Callers, i, j \in 1..Len(connectionPool) :
        /\ i < j
        /\ connState[connectionPool[i]] = "Final"
        /\ connState[connectionPool[j]] = "LoggedIn"
        /\ pc[c] = "polling"

\* C9: when a query fails because its connection went Final, the connection
\* is out of connectionPool by the time the handler sees the (re-thrown)
\* error.
C9_EvictedBeforeRethrow ==
    [][\A c \in Callers :
          (/\ pc[c] \in {"granted", "executing"}
           /\ pc'[c] = "idle"
           /\ connState'[connection[c]] = "Final")
          => (/\ result'[c] = "rejected"
              /\ \A i \in 1..Len(connectionPool') :
                     connectionPool'[i] # connection[c])]_vars

\* C10: with MAX_POOL_SIZE entries and none available a call neither rejects
\* nor creates a connection but waits; a waiting call leaves the wait only
\* at a tick that finds an available entry, with the first such entry, and
\* has no other way out.
C10_FullPoolWaits ==
    [][\A c \in Callers :
          /\ (/\ pc[c] = "idle"
              /\ pc'[c] # "idle"
              /\ Len(PruneFinal(connectionPool)) = MAX_POOL_SIZE
              /\ \A i \in 1..Len(connectionPool) :
                     connState[connectionPool[i]] # "LoggedIn")
             => (/\ pc'[c] = "polling"
                 /\ result'[c] = "none"
                 /\ nextConn' = nextConn
                 /\ Len(connectionPool') = MAX_POOL_SIZE)
          /\ pc[c] = "polling"
             => \/ pc'[c] = "polling" /\ result'[c] = "none" /\ connection'[c] = NoConn
                \/ /\ pc'[c] = "granted"
                   /\ \E i \in 1..Len(connectionPool) :
                         /\ connState[connectionPool[i]] = "LoggedIn"
                         /\ connection'[c] = connectionPool[i]
                         /\ \A j \in 1..(i-1) :
                                connState[connectionPool[j]] # "LoggedIn"
                   /\ result'[c] = "none"
                   /\ connectionPool' = connectionPool
                   /\ nextConn' = nextConn]_vars

\* C10 witness: a call waits on a full pool whose entries are all busy.
C10_Witness ==
    \E c \in Callers :
        /\ pc[c] = "polling"
        /\ Len(connectionPool) = MAX_POOL_SIZE
        /\ \A i \in 1..Len(connectionPool) :
               connState[connectionPool[i]] = "SentClientRequest"

----------------------------------------------------------------------------
(***************************************************************************)
(* Properties of the verification workflows                                *)
(***************************************************************************)
\* Request r, idle before the step, passed the checks of handler h.
Accepted(r, h) == req[r] = IdleReq /\ req'[r] # IdleReq /\ req'[r].h = h

\* Request r, idle before the step, was answered by handler h in this step.
Answered(r, h, status) ==
    /\ req[r] = IdleReq
    /\ response'.req = r
    /\ response'.handler = h
    /\ response'.status = status

\* C3: every user_credentials row has its user_profiles row, once the handler
\* that inserted it is no longer between its two inserts: a failed profile
\* insert leaves no user behind.
C3_SignupAtomic ==
    \A c \in user_credentials :
        \/ \E p \in user_profiles : p.user_id = c.user_id
        \/ \E r \in Reqs : /\ req[r].h = "signup"
                           /\ req[r].step = "insertProfile"
                           /\ req[r].userId = c.user_id

\* C4: at the answer that completes a signup (201), an email change (200) or
\* a password reset (200 of reset-password after verify-otp accepted a code),
\* the code that was consumed is no longer one its endpoint accepts.
C4_SingleUse ==
    [][/\ (response'.handler = "complete-signup" /\ response'.status = 201)
            => ~CompleteSignupValid(verificationCodes', now', response'.key,
                                    response'.code)
       /\ (response'.handler = "confirm-email-change" /\ response'.status = 200)
            => ~ConfirmEmailChangeValid(otpStorage', now', response'.key,
                                        response'.code)
       /\ (/\ response'.handler = "reset-password"
           /\ response'.status = 200
           /\ verifiedOtp[response'.key] # "none")
            => ~VerifyOtpValid(passwordResetCodes', now', response'.key,
                               verifiedOtp[response'.key])
      ]_vars

\* C5: a code is accepted exactly when its record exists, the code is the
\* stored one and the clock is within the TTL: complete-signup and verify-otp
\* up to codeExpiry = issue time + CODE_TTL, confirm-email-change up to
\* OTP_TTL after the timestamp of the record.
C5_AcceptedWithinTTL ==
    [][/\ \A r \in Reqs :
            /\ Accepted(r, "complete-signup") =>
                 LET rec == verificationCodes[req'[r].email]
                 IN  /\ rec # NoRec
                     /\ rec.verificationCode = req'[r].code
                     /\ now <= rec.codeExpiry
            /\ Answered(r, "complete-signup", 400) =>
                 LET rec == verificationCodes[response'.key]
                 IN  ~(/\ rec # NoRec
                       /\ rec.verificationCode = response'.code
                       /\ now <= rec.codeExpiry)
            /\ Answered(r, "verify-otp", 200) =>
                 LET rec == passwordResetCodes[response'.key]
                 IN  /\ rec # NoRec
                     /\ rec.resetCode = response'.code
                     /\ now <= rec.codeExpiry
            /\ Answered(r, "verify-otp", 400) =>
                 LET rec == passwordResetCodes[response'.key]
                 IN  ~(/\ rec # NoRec
                       /\ rec.resetCode = response'.code
                       /\ now <= rec.codeExpiry)
            /\ Accepted(r, "confirm-email-change") =>
                 LET rec == otpStorage[req'[r].user_id]
                 IN  /\ rec # NoRec
                     /\ rec.otp = req'[r].otp
                     /\ now - rec.timestamp <= OTP_TTL
            /\ Answered(r, "confirm-email-change", 400) =>
                 LET rec == otpStorage[response'.key]
                 IN  ~(/\ rec # NoRec
                       /\ rec.otp = response'.code
                       /\ now - rec.timestamp <= OTP_TTL)
       /\ \A e \in Emails :
            /\ (verificationCodes'[e] # verificationCodes[e]
                    /\ verificationCodes'[e] # NoRec)
                 => verificationCodes'[e].codeExpiry = now + CODE_TTL
            /\ (passwordResetCodes'[e] # passwordResetCodes[e]
                    /\ passwordResetCodes'[e] # NoRec)
                 => passwordResetCodes'[e].codeExpiry = now + CODE_TTL
       /\ \A u \in UserIds :
            (otpStorage'[u] # otpStorage[u] /\ otpStorage'[u] # NoRec)
                 => otpStorage'[u].timestamp = now
      ]_vars

\* complete-signup has just turned away the stored code of a record that is
\* still in the map, because the clock is past codeExpiry.
C5_Witness ==
    /\ response.handler = "complete-signup"
    /\ response.status = 400
    /\ verificationCodes[response.key] # NoRec
    /\ verificationCodes[response.key].verificationCode = response.code
    /\ now > verificationCodes[response.key].codeExpiry

\* C6: a handler that reads a record which is past its expiry answers 400
\* and leaves the map without the record or with the record as it was.
C6_ExpiredIsAbsent ==
    [][\A r \in Reqs :
        /\ \A e \in Emails :
            (/\ verificationCodes[e] # NoRec
             /\ now > verificationCodes[e].codeExpiry
             /\ \/ Accepted(r, "complete-signup") /\ req'[r].email = e
                \/ Accepted(r, "resend-verification-code") /\ req'[r].email = e
                \/ \E s \in {400, 500} :
                       /\ \/ Answered(r, "complete-signup", s)
                          \/ Answered(r, "resend-verification-code", s)
                       /\ response'.key = e)
            => /\ response'.status = 400
               /\ verificationCodes'[e] \in {NoRec, verificationCodes[e]}
        /\ \A e \in Emails :
            (/\ passwordResetCodes[e] # NoRec
             /\ now > passwordResetCodes[e].codeExpiry
             /\ \E s \in {200, 400} : Answered(r, "verify-otp", s)
             /\ response'.key = e)
            => /\ response'.status = 400
               /\ passwordResetCodes'[e] \in {NoRec, passwordResetCodes[e]}
        /\ \A u \in UserIds :
            (/\ otpStorage[u] # NoRec
             /\ now - otpStorage[u].timestamp > OTP_TTL
             /\ \/ Accepted(r, "confirm-email-change") /\ req'[r].user_id = u
                \/ Answered(r, "confirm-email-change", 400) /\ response'.key = u)
            => /\ response'.status = 400
               /\ otpStorage'[u] \in {NoRec, otpStorage[u]}
      ]_vars

\* C7: the email UPDATE is executed at most once for one record stored by
\* verify-email-change.
C7_UpdateAtMostOnce == \A i \in OtpIds : emailUpdates[i] <= 1

----------------------------------------------------------------------------
(***************************************************************************)
(* Properties of getConnection's three paths                               *)
(***************************************************************************)
\* The step in which call c enters executeQuery.
Starts(c) == pc[c] = "idle" /\ pc'[c] # "idle"

\* The entries of the pool that are not Final, as positions.
Live(pool) == {i \in 1..Len(pool) : connState[pool[i]] # "Final"}

\* The positions of the pool whose entry is LoggedIn.
Ready(pool) == {i \in 1..Len(pool) : connState[pool[i]] = "LoggedIn"}

\* The least member of a nonempty set of positions.
Least(S) == CHOOSE i \in S : \A j \in S : i <= j

\* C11: a call that finds a LoggedIn entry in the pool is given the first one
\* in pool order at once; no connection is created and the pool keeps the
\* entries that are not Final, no more and no fewer.
C11_FirstMatch ==
    [][\A c \in Callers :
        (Starts(c) /\ Ready(connectionPool) # {})
        => /\ pc'[c] = "granted"
           /\ connection'[c] = connectionPool[Least(Ready(connectionPool))]
           /\ nextConn' = nextConn
           /\ Len(connectionPool') = Cardinality(Live(connectionPool))
      ]_vars

\* Two LoggedIn entries, and two calls that were both given the first.
C11_Witness ==
    /\ Len(connectionPool) >= 2
    /\ connState[connectionPool[1]] = "LoggedIn"
    /\ connState[connectionPool[2]] = "LoggedIn"
    /\ \E c1, c2 \in Callers :
           /\ c1 # c2
           /\ pc[c1] = "granted" /\ connection[c1] = connectionPool[1]
           /\ pc[c2] = "granted" /\ connection[c2] = connectionPool[1]

\* C12: with no LoggedIn entry and room in the pool the call goes to create
\* one connection.  When the connect succeeds that connection, and nothing
\* else, is appended at the end of the pool and given to the call; when it
\* fails the call is rejected, the pool is as it was and the call does not
\* try again.
C12_CreatePath ==
    [][\A c \in Callers :
        /\ (/\ Starts(c)
            /\ Ready(connectionPool) = {}
            /\ Cardinality(Live(connectionPool)) < MAX_POOL_SIZE)
           => /\ pc'[c] = "creating"
              /\ result'[c] = "none"
              /\ nextConn' = nextConn
              /\ Len(connectionPool') = Cardinality(Live(connectionPool))
        /\ (pc[c] = "creating" /\ pc'[c] # "creating")
           => \/ /\ pc'[c] = "granted"
                 /\ connectionPool' = Append(connectionPool, nextConn)
                 /\ connection'[c] = nextConn
                 /\ connState'[nextConn] = "LoggedIn"
                 /\ nextConn' = nextConn + 1
              \/ /\ pc'[c] = "idle"
                 /\ result'[c] = "rejected"
                 /\ connectionPool' = connectionPool
                 /\ nextConn' = nextConn
      ]_vars

\* A connect has failed: the call was rejected, no connection was ever made
\* and the pool is empty.
C12_Witness ==
    /\ connectionPool = <<>>
    /\ nextConn = 1
    /\ \E c \in Callers : pc[c] = "idle" /\ result[c] = "rejected"

\* C13: a connection enters the pool LoggedIn (its handshake done); every
\* entry is LoggedIn, has a request in flight, or is Final; no connection
\* is in the pool twice.
C13_PoolEntries ==
    [][/\ \A i \in 1..Len(connectionPool') :
            /\ (\A j \in 1..Len(connectionPool) :
                    connectionPool[j] # connectionPool'[i])
               => connState'[connectionPool'[i]] = "LoggedIn"
            /\ \/ connState'[connectionPool'[i]] = "LoggedIn"
               \/ /\ connState'[connectionPool'[i]] = "SentClientRequest"
                  /\ connRequest'[connectionPool'[i]] # NoCaller
               \/ connState'[connectionPool'[i]] = "Final"
       /\ \A i, j \in 1..Len(connectionPool') :
            connectionPool'[i] = connectionPool'[j] => i = j
      ]_vars

\* The pool holds a busy entry, a LoggedIn entry and a Final entry.
C13_Witness ==
    \E i, j, l \in 1..Len(connectionPool) :
        /\ connState[connectionPool[i]] = "SentClientRequest"
        /\ connState[connectionPool[j]] = "LoggedIn"
        /\ connState[connectionPool[l]] = "Final"

\* C14: the promise of a call whose request was made settles at the end of
\* the answer and not again: rejected when an error token came in or the
\* connection was lost, else resolved with every row of the answer in the
\* order of arrival; a rejected call is handed no rows.
C14_SettlesOnce ==
    [][\A c \in Callers :
        /\ (pc[c] = "executing" /\ pc'[c] = "idle")
           => /\ result[c] = "none"
              /\ result'[c] \in {"resolved", "rejected"}
              /\ result'[c] = "rejected"
                    <=> \/ requestError[connection[c]]
                        \/ connState'[connection[c]] = "Final"
              /\ result'[c] = "resolved"
                    => /\ resolvedRows'[c] = results[c]
                       /\ results[c] = [i \in 1..Len(results[c]) |-> i]
              /\ result'[c] = "rejected" => resolvedRows'[c] = NoValue
        /\ (pc[c] = "granted" /\ pc'[c] = "idle")
           => result'[c] = "rejected" /\ resolvedRows'[c] = NoValue
        /\ (result[c] # "none" /\ ~Starts(c))
           => result'[c] = result[c] /\ resolvedRows'[c] = resolvedRows[c]
      ]_vars

\* A call was resolved with both rows of its answer, and a call was
\* rejected.
C14_Witness ==
    \E c1, c2 \in Callers :
        /\ result[c1] = "resolved" /\ resolvedRows[c1] = <<1, 2>>
        /\ result[c2] = "rejected" /\ nextConn > 1

\* C15: when the process has exited on SIGINT, close() was called on every
\* entry of the pool that was not Final.
C15_AllClosed ==
    exited => \A i \in 1..Len(connectionPool) :
                  \/ connectionPool[i] \in closeCalled
                  \/ connState[connectionPool[i]] = "Final"

\* A map entry after a request that failed: the entry the request found,
\* or none where the request found an expired one.
Kept(new, old, expired) == new = old \/ (new = NoRec /\ old # NoRec /\ expired)

\* C16: when a workflow handler answers with an error status, the tables
\* and the three maps are as the request found them, but for expired
\* records, which may be gone.
C16_ErrorLeavesNoTrace ==
    [][response'.status >= 400
        => /\ user_credentials' = before'.user_credentials
           /\ user_profiles' = before'.user_profiles
           /\ \A e \in Emails :
                /\ Kept(verificationCodes'[e], before'.verificationCodes[e],
                        now > before'.verificationCodes[e].codeExpiry)
                /\ Kept(passwordResetCodes'[e], before'.passwordResetCodes[e],
                        now > before'.passwordResetCodes[e].codeExpiry)
           /\ \A u \in UserIds :
                Kept(otpStorage'[u], before'.otpStorage[u],
                     now - before'.otpStorage[u].timestamp > OTP_TTL)
      ]_vars

\* C17: when confirm-email-change answers 200, the address it has set is the
\* address of no other account.
C17_NewEmailNotInUse ==
    [][(response'.handler = "confirm-email-change" /\ response'.status = 200)
        => ~\E p, q \in user_profiles' :
               /\ p.user_id = response'.key
               /\ q.user_id # p.user_id
               /\ q.email = p.email
      ]_vars

\* Request r takes a step.
StepOf(r) == req'[r] # req[r]

\* C18: no step of reset-password changes passwordResetCodes; its user query
\* answers 404 (or 500) and changes nothing when no profile has the email,
\* and else goes on with the user id of a profile that has it, whatever
\* passwordResetCodes holds; its update sets that user's hash to the hash
\* of the new password and answers 200, or fails with 500 and changes
\* nothing.
C18_ResetWithoutOtp ==
    [][\A r \in Reqs :
        /\ (StepOf(r) /\ "reset-password" \in {req[r].h, req'[r].h})
           => passwordResetCodes' = passwordResetCodes
        /\ (StepOf(r) /\ At(r, "reset-password", "userQuery"))
           => IF \A p \in user_profiles : p.email # req[r].email
              THEN /\ response'.status \in {404, 500}
                   /\ user_credentials' = user_credentials
              ELSE \/ response'.status = 500
                   \/ /\ req'[r].h = "reset-password"
                      /\ req'[r].step = "update"
                      /\ \E p \in user_profiles :
                             /\ p.email = req[r].email
                             /\ p.user_id = req'[r].userId
        /\ (StepOf(r) /\ At(r, "reset-password", "update"))
           => \/ /\ response'.status = 200
                 /\ \A c \in user_credentials' :
                        c.user_id = req[r].userId
                            => c.password = Hash(req[r].newPassword)
                 /\ {c \in user_credentials' : c.user_id # req[r].userId}
                        = {c \in user_credentials : c.user_id # req[r].userId}
              \/ /\ response'.status = 500
                 /\ user_credentials' = user_credentials
      ]_vars

\* reset-password has answered 200 and set the new hash for an email that
\* has no reset record and for which verify-otp accepted no code.
C18_Witness ==
    /\ response.handler = "reset-password"
    /\ response.status = 200
    /\ passwordResetCodes[response.key] = NoRec
    /\ verifiedOtp[response.key] = "none"
    /\ \E c \in user_credentials : c.user_id = 1 /\ c.password = Hash("q")

\* C19: verify-otp on an email whose reset record is past codeExpiry answers
\* 400 and removes the record, whatever otp was sent.
C19_VerifyOtpRemovesExpired ==
    [][\A r \in Reqs, e \in Emails :
        (/\ passwordResetCodes[e] # NoRec
         /\ now > passwordResetCodes[e].codeExpiry
         /\ \E s \in {200, 400} : Answered(r, "verify-otp", s)
         /\ response'.key = e)
        => /\ response'.status = 400
           /\ passwordResetCodes'[e] = NoRec
      ]_vars

\* Request r, idle before the step, had the record of email e read by
\* handler h in this step.
Reads(r, h, e) ==
    \/ Accepted(r, h) /\ req'[r].email = e
    \/ Answered(r, h, 400) /\ response'.key = e

\* C20: after complete-signup or resend-verification-code has read a record
\* that is past codeExpiry, verificationCodes has no entry for the email.
C20_ExpiredSignupRemoved ==
    [][\A r \in Reqs, e \in Emails :
        (/\ verificationCodes[e] # NoRec
         /\ now > verificationCodes[e].codeExpiry
         /\ \/ Reads(r, "complete-signup", e)
            \/ Reads(r, "resend-verification-code", e))
        => verificationCodes'[e] = NoRec
      ]_vars

----------------------------------------------------------------------------
\* Request r passed the checks of its handler in this step and goes on to
\* send the code it stored.
Issues(r) == req'[r] # IdleReq /\ req'[r].step = "sendMail"

\* C21: each map holds one record per key, and a code-issuing step puts a
\* whole new record under its key: every field comes from the issuing request
\* (its profile fields or new email, its fresh code, the clock at that
\* moment), nothing of the record that was there survives and no other key
\* changes.  An accepted submission carries the code of the record stored at
\* that moment and takes its payload from it, so once a record is replaced
\* only the latest code, with the latest payload, is accepted.
C21_ReissueReplaces ==
    [][\A r \in Reqs :
        /\ (At(r, "pre-signup", "emailQuery") /\ Issues(r))
           => \E c \in Codes :
                 verificationCodes' =
                     [verificationCodes EXCEPT ![req[r].email] =
                         [username |-> req[r].username,
                          password |-> req[r].password,
                          verificationCode |-> c,
                          codeExpiry |-> now + CODE_TTL]]
        /\ \A h \in {"forgot-password", "resend-password-otp"} :
           (At(r, h, "emailQuery") /\ Issues(r))
           => \E c \in Codes, row \in ProfilesByEmail(req[r].email) :
                 passwordResetCodes' =
                     [passwordResetCodes EXCEPT ![req[r].email] =
                         [resetCode |-> c,
                          codeExpiry |-> now + CODE_TTL,
                          userId |-> row.user_id]]
        /\ (At(r, "verify-email-change", "verifyQuery") /\ Issues(r))
           => \E c \in Codes :
                 otpStorage' =
                     [otpStorage EXCEPT ![req[r].user_id] =
                         [otp |-> c, newEmail |-> req[r].newEmail,
                          timestamp |-> now, id |-> nextOtp]]
        /\ (req[r] = IdleReq /\ Accepted(r, "complete-signup"))
           => LET rec == verificationCodes[req'[r].email]
              IN  /\ rec # NoRec
                  /\ req'[r].code = rec.verificationCode
                  /\ req'[r].username = rec.username
                  /\ req'[r].password = rec.password
        /\ Answered(r, "verify-otp", 200)
           => /\ passwordResetCodes[response'.key] # NoRec
              /\ response'.code = passwordResetCodes[response'.key].resetCode
        /\ (req[r] = IdleReq /\ Accepted(r, "confirm-email-change"))
           => LET rec == otpStorage[req'[r].user_id]
              IN  /\ rec # NoRec
                  /\ req'[r].otp = rec.otp
                  /\ req'[r].newEmail = rec.newEmail
                  /\ req'[r].id = rec.id
      ]_vars

\* A second OTP was issued for user 1 while the first was still stored (none
\* was ever consumed), and a submission was accepted against the second.
C21_Witness ==
    /\ nextOtp = 3
    /\ \A i \in OtpIds : emailUpdates[i] = 0
    /\ otpStorage[1] # NoRec
    /\ otpStorage[1].id = 2
    /\ req[1].h = "confirm-email-change"
    /\ req[1].id = 2

----------------------------------------------------------------------------
\* C22: while a /complete-signup request is in flight only its answering
\* step with 201 touches verificationCodes.  That step comes after the
\* registration query succeeded: it adds one user, with a user id not used
\* before and reported in the answer, and removes the record of the email and
\* no other.  A failure of the hashing or of the query answers 500, writes no
\* row and leaves the record stored, with the code that was submitted.
C22_DeleteAfterInsert ==
    [][\A r \in Reqs :
        (req[r] # IdleReq /\ req[r].h = "complete-signup" /\ req'[r] # req[r])
        => LET e == req[r].email
           IN  IF response'.status = 201
               THEN /\ At(r, "complete-signup", "insert")
                    /\ verificationCodes' = [verificationCodes EXCEPT ![e] = NoRec]
                    /\ \A c \in user_credentials :
                           c.user_id # response'.body.userId
                    /\ user_credentials' = user_credentials \cup
                           {[user_id |-> response'.body.userId,
                             username |-> req[r].username,
                             password |-> Hash(req[r].password)]}
                    /\ user_profiles' = user_profiles \cup
                           {[user_id |-> response'.body.userId, email |-> e]}
               ELSE /\ verificationCodes' = verificationCodes
                    /\ UNCHANGED dbVars
                    /\ req'[r] = IdleReq
                       => /\ response'.status = 500
                          /\ verificationCodes'[e] # NoRec
                          /\ verificationCodes'[e].verificationCode = req[r].code
      ]_vars

\* The registration query failed: 500, and the record is still stored with
\* the submitted code.
C22_Witness ==
    /\ response.handler = "complete-signup"
    /\ response.status = 500
    /\ verificationCodes[response.key] # NoRec
    /\ verificationCodes[response.key].verificationCode = response.code
    /\ user_profiles = {[user_id |-> 1, email |-> "a"]}

----------------------------------------------------------------------------
\* C23: /resend-verification-code answers 400 and changes nothing when the
\* email has no record.  Otherwise it puts a new code and an expiry of now
\* plus fifteen minutes into the record and keeps its pending profile
\* fields, and it touches nothing else.  A /complete-signup that comes in
\* afterwards is judged against the record as it then stands: it is let
\* through exactly when the submitted code is the stored (new) one and the
\* new expiry has not passed, so the previous code, when different, gets 400.
C23_ResendKeepsProfile ==
    [][\A r \in Reqs :
        /\ Answered(r, "resend-verification-code", 400)
           => /\ verificationCodes[response'.key] = NoRec
              /\ UNCHANGED <<dbVars, mapVars>>
        /\ Accepted(r, "resend-verification-code")
           => LET e == req'[r].email
                  old == verificationCodes[e]
              IN  /\ old # NoRec
                  /\ \E c \in Codes :
                        verificationCodes' =
                            [verificationCodes EXCEPT ![e] =
                                [username |-> old.username,
                                 password |-> old.password,
                                 verificationCode |-> c,
                                 codeExpiry |-> now + CODE_TTL]]
                  /\ UNCHANGED <<dbVars, passwordResetCodes, otpStorage>>
        /\ Accepted(r, "complete-signup")
           => LET rec == verificationCodes[req'[r].email]
              IN  /\ rec # NoRec
                  /\ rec.verificationCode = req'[r].code
                  /\ now <= rec.codeExpiry
                  /\ req'[r].username = rec.username
                  /\ req'[r].password = rec.password
        /\ \A e \in Emails :
           (Answered(r, "complete-signup", 400) /\ response'.key = e)
           => \/ verificationCodes[e] = NoRec
              \/ verificationCodes[e].verificationCode # response'.code
              \/ now > verificationCodes[e].codeExpiry
      ]_vars

\* A code was resent with a new value after the first issue had run out, and
\* /complete-signup let the new code through with the profile fields kept.
C23_Witness ==
    /\ req[1] # IdleReq
    /\ req[1].h = "complete-signup"
    /\ req[1].code = "999999"
    /\ verificationCodes["b"] # NoRec
    /\ verificationCodes["b"].verificationCode = "999999"
    /\ verificationCodes["b"].username = req[1].username
    /\ now > CODE_TTL

----------------------------------------------------------------------------
\* C24: a reset record carries the user id that the email resolved to when
\* its code was issued.  /verify-otp with the stored code, not past the
\* expiry, answers 200 with that user id and leaves passwordResetCodes as it
\* is; with any other code against a stored record it answers 400 'Invalid
\* OTP' and leaves the map as it is.  /forgot-password for an email without a
\* profile row answers 404 (500 when the query itself fails) and stores
\* nothing.
C24_VerifyOtpAnswers ==
    [][\A r \in Reqs :
        /\ \A h \in {"forgot-password", "resend-password-otp"} :
           (At(r, h, "emailQuery") /\ Issues(r))
           => \E row \in ProfilesByEmail(req[r].email) :
                 passwordResetCodes'[req[r].email].userId = row.user_id
        /\ \A e \in Emails :
           (req[r] = IdleReq /\ response'.req = r
               /\ response'.handler = "verify-otp" /\ response'.key = e)
           => LET rec == passwordResetCodes[e]
              IN  IF rec = NoRec
                  THEN response'.status = 400
                  ELSE IF rec.resetCode # response'.code
                  THEN /\ response'.status = 400
                       /\ response'.body.message = "Invalid OTP"
                       /\ UNCHANGED passwordResetCodes
                  ELSE IF now <= rec.codeExpiry
                  THEN /\ response'.status = 200
                       /\ response'.body.userId = rec.userId
                       /\ UNCHANGED passwordResetCodes
                  ELSE response'.status = 400
        /\ (At(r, "forgot-password", "emailQuery")
               /\ ProfilesByEmail(req[r].email) = {} /\ req'[r] # req[r])
           => /\ response'.req = r
              /\ response'.status \in {404, 500}
              /\ UNCHANGED passwordResetCodes
        /\ \A e \in Emails :
           (At(r, "forgot-password", "emailQuery") /\ response'.req = r
               /\ response'.status = 404)
           => ProfilesByEmail(req[r].email) = {}
      ]_vars

\* The stored code was verified: 200 with the user id of the record, and
\* the record is still there.
C24_Witness ==
    /\ response.handler = "verify-otp"
    /\ response.status = 200
    /\ passwordResetCodes[response.key] # NoRec
    /\ passwordResetCodes[response.key].resetCode = response.code
    /\ response.body.userId = passwordResetCodes[response.key].userId
    /\ response.body.userId = 1

----------------------------------------------------------------------------
\* C25: otpStorage starts empty, and a step puts a record under a user id
\* only as the password step of a /verify-email-change request for that user
\* id whose password matches the stored hash; the record carries the new
\* email of that request, and the request got to its password step only
\* because no profile row had that email.  A /verify-email-change answered
\* 400, 404 or 401 is answered before its sendMail step and leaves
\* otpStorage as it was.
C25_OtpNeedsPassword ==
    [][/\ \A u \in UserIds :
           (otpStorage'[u] # NoRec /\ otpStorage'[u] # otpStorage[u])
           => \E r \in Reqs :
                 /\ At(r, "verify-email-change", "verifyQuery")
                 /\ req[r].user_id = u
                 /\ \E row \in CredentialsJoinProfiles(u) :
                        Compare(req[r].password, row.password)
                 /\ otpStorage'[u].newEmail = req[r].newEmail
                 /\ Issues(r)
       /\ \A r \in Reqs :
           /\ (At(r, "verify-email-change", "emailQuery")
                  /\ req'[r] # IdleReq /\ req'[r].step = "verifyQuery")
              => ProfilesByEmail(req[r].newEmail) = {}
           /\ (req[r] # IdleReq /\ req[r].h = "verify-email-change"
                  /\ response'.req = r /\ response'.status \in {400, 404, 401})
              => /\ req[r].step # "sendMail"
                 /\ UNCHANGED <<otpStorage, nextOtp>>
      ]_vars

\* The password of user 1 was presented with an unused new email: the record
\* is stored and the mail is about to be sent.
C25_Witness ==
    /\ req[1] # IdleReq
    /\ req[1].h = "verify-email-change"
    /\ req[1].step = "sendMail"
    /\ otpStorage[1] # NoRec
    /\ otpStorage[1].newEmail = "b"
    /\ otpStorage[2] = NoRec

----------------------------------------------------------------------------
\* C26: the password of a user changes only in the step that answers the
\* UPDATE of a /change-password request for that user, and it becomes the
\* hash of that request's new password.  A request issues its UPDATE only
\* after its user was found with a password set and its currentPassword
\* matched the stored hash.  A /change-password answered 400, 404 or 401 is
\* answered before any UPDATE and leaves the table as it was.
C26_ChangeNeedsCurrent ==
    [][/\ user_credentials' # user_credentials
          => \E r \in Reqs :
                /\ At(r, "change-password", "update")
                /\ response'.req = r /\ response'.status = 200
                /\ user_credentials' =
                       {IF c.user_id = req[r].user_id
                        THEN [c EXCEPT !.password = Hash(req[r].newPassword)]
                        ELSE c : c \in user_credentials}
       /\ \A r \in Reqs :
           /\ (At(r, "change-password", "verifyQuery")
                  /\ req'[r] # IdleReq /\ req'[r].step = "update")
              => \E c \in user_credentials :
                    /\ c.user_id = req[r].user_id
                    /\ c.password # NoHash
                    /\ Compare(req[r].currentPassword, c.password)
           /\ (response'.req = r /\ response'.handler = "change-password"
                  /\ response'.status \in {400, 404, 401})
              => /\ req[r] = IdleReq \/ req[r].step = "verifyQuery"
                 /\ UNCHANGED dbVars
      ]_vars

\* A wrong current password was answered 401 while user 1 still has the
\* first hash, and another request with the right one waits for its UPDATE.
C26_Witness ==
    /\ response.handler = "change-password"
    /\ response.status = 401
    /\ [user_id |-> 1, username |-> "u1", password |-> Hash("p")] \in user_credentials
    /\ \E r \in Reqs : req[r] # IdleReq /\ req[r].step = "update"

----------------------------------------------------------------------------
\* What the client of a request sees of an answer: the status and the body.
Seen(resp) == [status |-> resp.status, body |-> resp.body]

\* C27: when the query of a /login is answered without an error, a request
\* whose identifier matches no user and a request whose identifier matches a
\* user but whose password does not match get one and the same answer,
\* status 400 with the body {message: 'Invalid credentials'}; only a
\* matching password for an existing identifier is answered otherwise.
C27_LoginSameAnswer ==
    [][\A r \in Reqs :
        (At(r, "login", "query") /\ response'.req = r /\ response'.status # 500)
        => LET rows == LoginRows(Trim(req[r].identifier))
               unknown == rows = {}
               wrong == /\ rows # {}
                        /\ \E row \in rows :
                               ~Compare(Trim(req[r].password), row.password)
           IN  /\ (unknown \/ wrong)
                  => Seen(response') =
                         [status |-> 400,
                          body |-> [message |-> "Invalid credentials"]]
               /\ response'.status = 200
                  => \E row \in rows :
                        /\ Compare(Trim(req[r].password), row.password)
                        /\ response'.body.userId = row.user_id
      ]_vars

\* One request was just answered 'Invalid credentials' for the username of
\* user 1 with a wrong password, while a request for a name nobody has is
\* waiting for its query.
C27_Witness ==
    /\ response.handler = "login"
    /\ response.key = "u1"
    /\ Seen(response) = [status |-> 400,
                         body |-> [message |-> "Invalid credentials"]]
    /\ \E r \in Reqs : req[r] # IdleReq /\ req[r].identifier = "zz"

----------------------------------------------------------------------------
\* Two persisted users share one email.
SharedEmail ==
    \E p1 \in user_profiles, p2 \in user_profiles :
        p1.user_id # p2.user_id /\ p1.email = p2.email

\* C28: nothing in the handlers stands in the way of a second registration
\* for an email.  A /pre-signup whose email has no profile row can store its
\* record whatever other requests are in flight and whatever record is
\* pending, and a /complete-signup that waits for its registration query
\* can have it succeed and add its user, also when a profile row with the
\* same email exists by then.
C28_NoGuardOnEmail ==
    \A r \in Reqs :
        /\ (req[r] # IdleReq /\ req[r].h = "pre-signup"
               /\ req[r].step = "emailQuery"
               /\ ProfilesByEmail(req[r].email) = {})
           => ENABLED (/\ \E code \in Codes : PreSignupEmailQuery(r, TRUE, code)
                       /\ req'[r].step = "sendMail")
        /\ (req[r] # IdleReq /\ req[r].h = "complete-signup"
               /\ req[r].step = "insert" /\ nextUserId <= MaxUsers)
           => ENABLED (/\ CompleteSignupInsert(r, TRUE)
                       /\ response'.status = 201
                       /\ [user_id |-> nextUserId, email |-> req[r].email]
                              \in user_profiles')

\* Two /complete-signup requests for one email were both let through before
\* either had inserted; both inserted: two users with one email.
C28_Witness ==
    /\ SharedEmail
    /\ \E p \in user_profiles : p.email = "b" /\ p.user_id = 3
    /\ response.handler = "complete-signup"
    /\ response.status = 201

----------------------------------------------------------------------------
\* Some persisted user has this username.
UsernameHeld(username) == \E c \in user_credentials : c.username = username

\* C29: a signup whose username is held by a persisted user is turned away
\* like one whose email is held: its /pre-signup, once the query is answered,
\* ends with 400 or 409 (500 when the query fails) instead of storing a
\* record, and no step adds a user under a username that is held.
C29_UsernameConflict ==
    [][/\ \A r \in Reqs :
           (At(r, "pre-signup", "emailQuery") /\ UsernameHeld(req[r].username)
               /\ req'[r] # req[r])
           => /\ response'.req = r
              /\ response'.status \in {400, 409, 500}
              /\ UNCHANGED verificationCodes
       /\ \A c \in user_credentials' \ user_credentials :
              ~UsernameHeld(c.username)
      ]_vars

----------------------------------------------------------------------------
\* The required fields of /save that a body lacks: scan_image and
\* user_profile_id when falsy, the score and the prediction when null or
\* undefined.
Absent(body) ==
    {f \in {"scan_image", "user_profile_id"} : Falsy(body[f])}
    \cup {f \in {"disease_prediction_score", "disease_prediction"} :
             body[f] \in {Null, Undefined}}

\* C30: /save answers a body that lacks a required field at once, with 400
\* and a missingFields list that names exactly the absent fields, each once,
\* and issues no query; it answers nothing else at once.  A body with all
\* four present, a prediction or a score of 0 included, has the scan
\* inserted under an id not used before, and its 201 carries that id, with
\* the row in rice_leaf_scan and the id in scan_history.
C30_SaveMissingFields ==
    [][\A r \in Reqs :
        /\ (req[r] = IdleReq /\ response'.req = r /\ response'.handler = "save")
           => LET listed == response'.body.missingFields
              IN  /\ response'.status = 400
                  /\ {listed[i] : i \in 1..Len(listed)} = Absent(response'.key)
                  /\ Len(listed) = Cardinality(Absent(response'.key))
                  /\ listed # <<>>
                  /\ UNCHANGED scanVars
        /\ Accepted(r, "save")
           => /\ Absent(req'[r].body) = {}
              /\ UNCHANGED scanVars
        /\ (At(r, "save", "leafScan") /\ req'[r] # IdleReq
               /\ req'[r].step = "history")
           => /\ \A row \in rice_leaf_scan :
                     row.rice_leaf_scan_id # req'[r].rice_leaf_scan_id
              /\ \E row \in rice_leaf_scan' :
                     row.rice_leaf_scan_id = req'[r].rice_leaf_scan_id
        /\ (response'.req = r /\ response'.handler = "save"
               /\ response'.status = 201)
           => /\ At(r, "save", "history")
              /\ response'.body.rice_leaf_scan_id = req[r].rice_leaf_scan_id
              /\ response'.body.rice_leaf_scan_id \in scan_history'
              /\ \E row \in rice_leaf_scan' :
                     /\ row.rice_leaf_scan_id = response'.body.rice_leaf_scan_id
                     /\ row.scan_image = req[r].body.scan_image.v
      ]_vars

\* A scan with prediction 0 and score 0 was saved: 201 with the id of its
\* row.
C30_Witness ==
    /\ response.handler = "save"
    /\ response.status = 201
    /\ response.key.disease_prediction = Num(0)
    /\ response.key.disease_prediction_score = Num(0)
    /\ \E row \in rice_leaf_scan :
           /\ row.rice_leaf_scan_id = response.body.rice_leaf_scan_id
           /\ row.rice_leaf_disease_id = 0
           /\ row.disease_confidence_score = 0

----------------------------------------------------------------------------
\* C31: a call waiting in the poll loop leaves it only by being given an
\* entry that is in the pool and LoggedIn at that tick; the tick leaves the
\* pool and the connections as they are, so it neither prunes nor creates.
\* While no entry of the pool is LoggedIn the waiting call stays where it
\* is, whatever step is taken; only the getConnection of another call
\* prunes the pool or adds to it.
C31_PollOnlyTakesPooled ==
    [][\A c \in Callers :
        pc[c] = "polling"
        => /\ pc'[c] \in {"polling", "granted"}
           /\ pc'[c] = "granted"
              => /\ InPool(connection'[c])
                 /\ connState[connection'[c]] = "LoggedIn"
                 /\ UNCHANGED <<connectionPool, connState, nextConn>>
           /\ (\A i \in 1..Len(connectionPool) :
                   connState[connectionPool[i]] # "LoggedIn")
              => pc'[c] = "polling"
           /\ connectionPool' # connectionPool
              => \E d \in Callers \ {c} :
                    pc[d] \in {"idle", "creating"} /\ pc'[d] # pc[d]
      ]_vars

\* The pool is full of Final entries while a call waits in the poll loop.
C31_Witness ==
    /\ \E c \in Callers : pc[c] = "polling"
    /\ Len(connectionPool) = MAX_POOL_SIZE
    /\ \A i \in 1..Len(connectionPool) : connState[connectionPool[i]] = "Final"

----------------------------------------------------------------------------
\* C32: the registration insert runs at most once for a pending record.  The
\* first insert that succeeds deletes the record, so a /complete-signup whose
\* insert succeeds and is answered 201 finds the record it was let through
\* on still stored; and an email never has more than one user registered
\* from one record.
C32_InsertOncePerRecord ==
    [][\A r \in Reqs :
        (At(r, "complete-signup", "insert") /\ response'.req = r
            /\ response'.status = 201)
        => /\ verificationCodes[req[r].email] # NoRec
           /\ Cardinality(ProfilesByEmail(req[r].email)) = 0
      ]_vars

----------------------------------------------------------------------------
\* The record of a key in each map is stored and within its time to live.
LiveSignup(e) ==
    verificationCodes[e] # NoRec /\ now <= verificationCodes[e].codeExpiry
LiveReset(e) ==
    passwordResetCodes[e] # NoRec /\ now <= passwordResetCodes[e].codeExpiry
LiveOtp(u) ==
    otpStorage[u] # NoRec /\ now - otpStorage[u].timestamp <= OTP_TTL

\* C33: a submission that is answered at once against a live record is a
\* wrong code: it gets 400 and leaves tables and maps exactly as they were,
\* so nothing counts it.  The stored code on a live record is therefore
\* never turned away, however many wrong codes came before: /complete-signup
\* and /confirm-email-change go on to their query, /verify-otp answers 200.
C33_WrongCodeChangesNothing ==
    [][\A r \in Reqs :
        (req[r] = IdleReq /\ response'.req = r)
        => /\ \A e \in Emails :
              (response'.handler = "complete-signup" /\ response'.key = e
                  /\ LiveSignup(e))
              => /\ response'.code # verificationCodes[e].verificationCode
                 /\ response'.status = 400
                 /\ UNCHANGED <<dbVars, mapVars>>
           /\ \A e \in Emails :
              (response'.handler = "verify-otp" /\ response'.key = e
                  /\ LiveReset(e))
              => IF response'.code = passwordResetCodes[e].resetCode
                 THEN response'.status = 200
                 ELSE /\ response'.status = 400
                      /\ UNCHANGED <<dbVars, mapVars>>
           /\ \A u \in UserIds :
              (response'.handler = "confirm-email-change" /\ response'.key = u
                  /\ LiveOtp(u))
              => /\ response'.code # otpStorage[u].otp
                 /\ response'.status = 400
                 /\ UNCHANGED <<dbVars, mapVars>>
      ]_vars

\* A wrong OTP was turned away with 400 and the live record is still there
\* with its own OTP.
C33_Witness ==
    /\ response.handler = "confirm-email-change"
    /\ response.status = 400
    /\ LiveOtp(response.key)
    /\ otpStorage[response.key].otp # response.code
    /\ now > 0

----------------------------------------------------------------------------
\* C34: /confirm-email-change checks for a missing record, then for expiry,
\* then the OTP.  Without a record it answers 400; an expired record is
\* deleted and answered 400 whatever OTP was sent; a wrong OTP on a live
\* record is answered 400 with the record kept.  A request let through took
\* its new email from the stored record, and when its UPDATE succeeds the
\* email of that user, and of no other, becomes the new email of the record
\* that user's latest /verify-email-change stored, and the record is
\* deleted.
C34_ConfirmUsesStoredEmail ==
    [][\A r \in Reqs :
        /\ \A u \in UserIds :
           (req[r] = IdleReq /\ response'.req = r
               /\ response'.handler = "confirm-email-change"
               /\ response'.key = u)
           => /\ response'.status = 400
              /\ UNCHANGED <<dbVars, verificationCodes, passwordResetCodes>>
              /\ IF otpStorage[u] = NoRec
                 THEN UNCHANGED otpStorage
                 ELSE IF now - otpStorage[u].timestamp > OTP_TTL
                 THEN otpStorage' = [otpStorage EXCEPT ![u] = NoRec]
                 ELSE /\ otpStorage[u].otp # response'.code
                      /\ UNCHANGED otpStorage
        /\ Accepted(r, "confirm-email-change")
           => /\ LiveOtp(req'[r].user_id)
              /\ req'[r].otp = otpStorage[req'[r].user_id].otp
              /\ req'[r].newEmail = otpStorage[req'[r].user_id].newEmail
              /\ UNCHANGED <<dbVars, mapVars>>
        /\ (At(r, "confirm-email-change", "update") /\ response'.req = r
               /\ response'.status = 200)
           => /\ otpStorage[req[r].user_id] # NoRec
              /\ user_profiles' =
                     {IF p.user_id = req[r].user_id
                      THEN [p EXCEPT !.email = otpStorage[req[r].user_id].newEmail]
                      ELSE p : p \in user_profiles}
              /\ otpStorage' = [otpStorage EXCEPT ![req[r].user_id] = NoRec]
      ]_vars

\* The email of user 1 was changed to the stored new email, and the record is
\* gone.
C34_Witness ==
    /\ response.handler = "confirm-email-change"
    /\ response.status = 200
    /\ response.key = 1
    /\ [user_id |-> 1, email |-> "b"] \in user_profiles
    /\ otpStorage[1] = NoRec
    /\ emailUpdates[1] = 1

----------------------------------------------------------------------------
\* C35: the step in which a call enters getConnection leaves in the pool
\* exactly the entries that were not Final, in the order they had; what it
\* then finds or waits for is searched in that pruned pool.
C35_PruneKeepsOrder ==
    [][\A c \in Callers :
        (pc[c] = "idle" /\ pc'[c] # "idle")
        => /\ connectionPool' =
                  SelectSeq(connectionPool, LAMBDA k : connState[k] # "Final")
           /\ \A i \in 1..Len(connectionPool') :
                  connState[connectionPool'[i]] # "Final"
           /\ pc'[c] = "granted"
              => \E i \in 1..Len(connectionPool') :
                    connectionPool'[i] = connection'[c]
      ]_vars

\* Connection 1 went Final and was pruned by a call that then found
\* connection 2, which stayed in the pool.
C35_Witness ==
    /\ connState[1] = "Final"
    /\ connectionPool = <<2>>
    /\ \E c \in Callers : pc[c] = "granted" /\ connection[c] = 2

----------------------------------------------------------------------------
\* C36: /save writes its scan row when the first query is answered and its
\* history row when the second is, in two steps with nothing to undo the
\* first.  When the second query fails the request is answered 500, the scan
\* row written for it stays in rice_leaf_scan, and scan_history does not get
\* its id.
C36_SaveNotAtomic ==
    [][\A r \in Reqs :
        /\ (At(r, "save", "leafScan") /\ req'[r] # req[r])
           => UNCHANGED scan_history
        /\ (At(r, "save", "history") /\ req'[r] # req[r])
           => /\ UNCHANGED <<rice_leaf_scan, nextScanId>>
              /\ \E row \in rice_leaf_scan' :
                     row.rice_leaf_scan_id = req[r].rice_leaf_scan_id
              /\ response'.req = r
              /\ response'.status \in {201, 500}
              /\ response'.status = 500
                 => /\ UNCHANGED scan_history
                    /\ req[r].rice_leaf_scan_id \notin scan_history'
      ]_vars

\* The one scan ever inserted has no history row, and its request was
\* answered 500.
C36_Witness ==
    /\ response.handler = "save"
    /\ response.status = 500
    /\ nextScanId = 2
    /\ \E row \in rice_leaf_scan : row.rice_leaf_scan_id = 1
    /\ scan_history = {}


----------------------------------------------------------------------------
\* the body fields that are provided, in the order the handler looks at them
Provided(body) ==
    SelectSeq(<<"firstname", "lastname", "birthdate", "contactNumber", "image">>,
              LAMBDA f : body[f] # NoField)

ColumnOf(f) ==
    CASE f = "contactNumber" -> "mobile_number"
      [] f = "image" -> "profile_image"
      [] OTHER -> f

\* the row a profile update is to leave: every provided field's column holds
\* the value sent for it, the others what they held
Expected(row, body, time) ==
    [firstname |-> IF body.firstname # NoField THEN body.firstname
                   ELSE row.firstname,
     lastname |-> IF body.lastname # NoField THEN body.lastname ELSE row.lastname,
     birthdate |-> IF body.birthdate # NoField THEN [date |-> body.birthdate]
                   ELSE row.birthdate,
     mobile_number |-> IF body.contactNumber # NoField THEN body.contactNumber
                       ELSE row.mobile_number,
     profile_image |-> IF body.image # NoField THEN body.image
                       ELSE row.profile_image,
     updated_at |-> time]

\* C37: in PUT /api/profile/update the k-th provided field, in the order
\* firstname, lastname, birthdate, contactNumber, image, is assigned from
\* placeholder @param{k}, and the parameter executeQuery names param{k} carries
\* that field's value; @param0 is the user id; a field left out is neither
\* assigned nor bound.  When the query is answered the row of that user holds
\* every provided value in its own column and nothing else has changed, and
\* the answer is 404 exactly when the UPDATE affected no row.
C37_ProfileUpdateBinding ==
    [][\A r \in ProfileReqs :
        /\ Accepted(r, "profile-update")
           => LET body == req'[r].body
                  provided == Provided(body)
                  updateFields == req'[r].updateFields
                  bound == AddParameters(req'[r].params)
              IN  /\ DOMAIN bound = 0..Len(provided)
                  /\ bound[0].value = ParseInt(body.userId)
                  /\ Len(updateFields) = Len(provided) + 1
                  /\ \A k \in 1..Len(provided) :
                        /\ updateFields[k].column = ColumnOf(provided[k])
                        /\ updateFields[k].placeholder = k
                        /\ bound[k].value =
                              IF provided[k] = "birthdate"
                              THEN [date |-> body[provided[k]]]
                              ELSE body[provided[k]]
                  /\ updateFields[Len(updateFields)].column = "updated_at"
                  /\ UNCHANGED profile_data
        /\ (At(r, "profile-update", "query") /\ req'[r] = IdleReq)
           => LET body == req[r].body
                  userId == ParseInt(body.userId)
                  hit == {p \in user_profiles : p.user_id = userId}
              IN  /\ response'.status \in {200, 404, 500}
                  /\ response'.status # 500
                        => (response'.status = 404 <=> hit = {})
                  /\ response'.status = 500 => UNCHANGED profile_data
                  /\ response'.status = 404
                        => hit = {} /\ UNCHANGED profile_data
                  /\ response'.status = 200
                        => /\ hit # {}
                           /\ profile_data' =
                                [profile_data EXCEPT ![userId] =
                                    Expected(profile_data[userId], body, now)]
    ]_vars

\* an update that left out firstname and birthdate has been answered 200 and
\* the row holds the three values sent, each in its own column
C37_Witness ==
    /\ response.handler = "profile-update"
    /\ response.status = 200
    /\ response.key.firstname = NoField
    /\ response.key.birthdate = NoField
    /\ profile_data[1].firstname = "f0"
    /\ profile_data[1].lastname = "l1"
    /\ profile_data[1].birthdate = [date |-> "d0"]
    /\ profile_data[1].mobile_number = "m1"
    /\ profile_data[1].profile_image = "i1"


----------------------------------------------------------------------------
\* the number a string of decimal digits stands for
RECURSIVE Decimal(_)
Decimal(str) ==
    IF str = <<>> THEN 0
    ELSE 10 * Decimal(SubSeq(str, 1, Len(str) - 1)) + str[Len(str)]

\* C38: whatever Math.random() returns in [0, 1), generateVerificationCode
\* returns a string of exactly six decimal digits, the first of them not 0,
\* that stands for a number from 100000 to 999999.
C38_SixDigits ==
    generatedCode # NoCode
       => /\ Len(generatedCode) = 6
          /\ \A i \in 1..6 : generatedCode[i] \in 0..9
          /\ generatedCode[1] # 0
          /\ Decimal(generatedCode) \in 100000..999999

\* the largest double below 1 has been drawn and the code is 999999
C38_Witness ==
    /\ random = [mant |-> [i \in 1..MantBits |-> 1], frac |-> MantBits]
    /\ generatedCode = <<9, 9, 9, 9, 9, 9>>

====
